---- MODULE Spec2Model ----
(***************************************************************************)
(* Model of the fraud detection engine of the email-security service:      *)
(* the seven detection strategies (internal/domain/detection), the shared  *)
(* helpers, and Detector.AnalyzeEmail with its weighted-maximum scoring;   *)
(* and of the FraudDetectionService that ingests the tenants' mail from    *)
(* the mock providers into the PostgresStore and runs the Detector on the  *)
(* unprocessed emails.                                                     *)
(*                                                                         *)
(* Strings are TLA+ strings; the Go string functions the code calls        *)
(* (strings.ToLower, Contains, HasSuffix, Count, Split) are defined below  *)
(* by what they compute.  Confidences are integers in thousandths          *)
(* (0.85 -> 850), weights in tenths (1.3 -> 13), and risk scores in        *)
(* ten-thousandths (1.0 -> 10000), so confidence * weight is exact.        *)
(* A *domain.Detection is a sequence: <<>> for nil, <<d>> for a signal; a  *)
(* *domain.User likewise.  The Evidence text of a detection is written     *)
(* once with fmt.Sprintf and read by no operation; of it only the trusted  *)
(* domain the typosquatting evidence names is modelled.                    *)
(***************************************************************************)
EXTENDS Integers, Sequences, FiniteSets, TLC

VARIABLES
    ctx,         \* Detector.context: [InternalDomains, TrustedDomains]
    strategies,  \* Detector.strategies: the fixed list built by NewDetector
    email,       \* the domain.Email of the call in progress
    recipient,   \* the *domain.User of the call in progress (<<>> is nil)
    pc,          \* position of the running call
    idx,         \* loop index of AnalyzeEmail over d.strategies (1-based)
    detections,  \* the detections slice of the call in progress
    analysis,    \* the returned domain.FraudAnalysis (<<>> before a return)
    fusedMulAdd, \* the build: TRUE when the compiler fuses x*y + z (arm64), FALSE on amd64
    calls,       \* concurrent callers of one Detector: each caller's AnalyzeEmail frame
    slices,      \* the detections slices the running calls allocated, by slice id
    args,        \* the arguments of a helper function called on its own
    result,      \* what that call returned (<<>> before the call)
    usersTable,     \* table users
    emailsTable,    \* table emails
    fraudAnalyses,  \* table fraud_analyses
    svc,            \* the running FraudDetectionService call: its position and locals
    uuidCount,      \* the uuids drawn so far (uuid.New() returns uuidCount + 1)
    runs,           \* the service calls main has made
    faults,         \* the provider and storage calls that returned an error
    snapshot,       \* users and emails as they were when the running ingestion began
    analysisFailed  \* the emails whose last CreateFraudAnalysis returned an error

\* the state of a Detector and of the call running on it
detVars == <<ctx, strategies, email, recipient, pc, idx, detections, analysis>>

\* the state outside the sequential Detector call
\* the store, the service call in progress and its environment
svcVars ==
    <<usersTable, emailsTable, fraudAnalyses, svc, uuidCount, runs, faults, snapshot,
      analysisFailed>>

otherVars == <<fusedMulAdd, calls, slices, args, result, svcVars>>

vars == <<detVars, otherVars>>

-----------------------------------------------------------------------------
(* Go's strings package, on TLA+ strings *)

Min2(a, b) == IF a <= b THEN a ELSE b
Max2(a, b) == IF a >= b THEN a ELSE b

UpperLetters == "ABCDEFGHIJKLMNOPQRSTUVWXYZ"
LowerLetters == "abcdefghijklmnopqrstuvwxyz"

\* unicode.ToLower on one character (the inputs below use ASCII capitals only)
LowerMap ==
    [c \in {SubSeq(UpperLetters, i, i) : i \in 1..Len(UpperLetters)} |->
        LET i == CHOOSE k \in 1..Len(UpperLetters) : SubSeq(UpperLetters, k, k) = c
        IN  SubSeq(LowerLetters, i, i)]

LowerChar(c) == IF c \in DOMAIN LowerMap THEN LowerMap[c] ELSE c

\* strings.ToLower: every character mapped, the halves joined in order
RECURSIVE ToLower(_)
ToLower(s) ==
    IF s = "" THEN ""
    ELSE IF Len(s) = 1 THEN LowerChar(s)
    ELSE LET h == Len(s) \div 2
         IN  ToLower(SubSeq(s, 1, h)) \o ToLower(SubSeq(s, h + 1, Len(s)))

\* strings.Contains
Contains(s, substr) ==
    \E i \in 1..(Len(s) - Len(substr) + 1) : SubSeq(s, i, i + Len(substr) - 1) = substr

\* strings.HasSuffix
HasSuffix(s, suffix) ==
    Len(s) >= Len(suffix) /\ SubSeq(s, Len(s) - Len(suffix) + 1, Len(s)) = suffix

\* strings.Count for a one-character separator
Count(s, c) == Cardinality({i \in 1..Len(s) : SubSeq(s, i, i) = c})

\* the text after the only occurrence of c (parts[1] of strings.Split when len(parts) = 2)
AfterSep(s, c) ==
    LET i == CHOOSE k \in 1..Len(s) : SubSeq(s, k, k) = c
    IN  SubSeq(s, i + 1, Len(s))

-----------------------------------------------------------------------------
(* helpers.go *)

RECURSIVE isInternalDomain(_, _)
isInternalDomain(domain, internalDomains) ==
    IF internalDomains = <<>> THEN FALSE
    ELSE IF domain = Head(internalDomains) THEN TRUE
    ELSE isInternalDomain(domain, Tail(internalDomains))

extractDomain(addr) ==
    IF Count(addr, "@") + 1 # 2 THEN ""
    ELSE ToLower(AfterSep(addr, "@"))

RECURSIVE containsAny(_, _)
containsAny(text, keywords) ==
    IF keywords = <<>> THEN FALSE
    ELSE IF Contains(text, Head(keywords)) THEN TRUE
    ELSE containsAny(text, Tail(keywords))

\* LevRow with a substitution costing 2
RECURSIVE LevRowDearSubstitution(_, _, _, _, _)
LevRowDearSubstitution(c, s2, prev, acc, j) ==
    IF j > Len(s2) THEN acc
    ELSE LET cost == IF c = SubSeq(s2, j, j) THEN 0 ELSE 2
             cell == Min2(Min2(prev[j + 1] + 1, acc[j] + 1), prev[j] + cost)
             next == Append(acc, cell)
         IN  IF Len(next) = j + 1 THEN LevRowDearSubstitution(c, s2, prev, next, j + 1)
             ELSE next

\* LevRow with a deletion costing 2
RECURSIVE LevRowDearDeletion(_, _, _, _, _)
LevRowDearDeletion(c, s2, prev, acc, j) ==
    IF j > Len(s2) THEN acc
    ELSE LET cost == IF c = SubSeq(s2, j, j) THEN 0 ELSE 1
             cell == Min2(Min2(prev[j + 1] + 2, acc[j] + 1), prev[j] + cost)
             next == Append(acc, cell)
         IN  IF Len(next) = j + 1 THEN LevRowDearDeletion(c, s2, prev, next, j + 1) ELSE next

\* One row of the DP table: row[j+1] is matrix[i][j].  Len(next) = j + 1 always
\* holds; testing it makes TLC compute the cell before the next step.
RECURSIVE LevRow(_, _, _, _, _)
LevRow(c, s2, prev, acc, j) ==
    IF j > Len(s2) THEN acc
    ELSE LET cost == IF c = SubSeq(s2, j, j) THEN 0 ELSE 1
             cell == Min2(Min2(prev[j + 1] + 1, acc[j] + 1), prev[j] + cost)
             next == Append(acc, cell)
         IN  IF Len(next) = j + 1 THEN LevRow(c, s2, prev, next, j + 1) ELSE next

\* the rows i..len(s1), from row i-1 (Len(row) = Len(prev) always holds)
RECURSIVE LevRows(_, _, _, _)
LevRows(s1, s2, prev, i) ==
    IF i > Len(s1) THEN prev
    ELSE LET row == LevRow(SubSeq(s1, i, i), s2, prev, <<i>>, 1)
         IN  IF Len(row) = Len(prev) THEN LevRows(s1, s2, row, i + 1) ELSE row

levenshteinDistance(s1, s2) ==
    IF Len(s1) = 0 THEN Len(s2)
    ELSE IF Len(s2) = 0 THEN Len(s1)
    ELSE LevRows(s1, s2, [j \in 1..(Len(s2) + 1) |-> j - 1], 1)[Len(s2) + 1]

-----------------------------------------------------------------------------
(* domain/models.go *)

\* email.Headers[key]: the zero value "" when the key is absent
HeaderGet(headers, key) == IF key \in DOMAIN headers THEN headers[key] ELSE ""

\* RiskLevel with the default case falling into the lowest named band
RiskLevelNoDefault(score) ==
    IF score >= 8500 THEN "critical"
    ELSE IF score >= 7000 THEN "high"
    ELSE IF score >= 5000 THEN "medium"
    ELSE "low"

RiskLevel(score) ==
    IF score >= 8500 THEN "critical"
    ELSE IF score >= 7000 THEN "high"
    ELSE IF score >= 5000 THEN "medium"
    ELSE IF score >= 3000 THEN "low"
    ELSE "none"

Detection(type, confidence) == <<[Type |-> type, Confidence |-> confidence]>>
NoDetection == <<>>

-----------------------------------------------------------------------------
(* display_name_strategy.go *)

execTitles == <<"ceo", "cfo", "president", "director", "chief", "vp", "vice president">>

DisplayNameConfidence == 850

\* DisplayNameDetect comparing the display name as received, not lower-cased
DisplayNameDetectCaseSensitive(e, rcpt, context) ==
    LET senderDomain == extractDomain(e.SenderEmail)
        hasExecTitle == containsAny(e.SenderName, execTitles)
        isExternal   == ~isInternalDomain(senderDomain, context.InternalDomains)
    IN  IF hasExecTitle /\ isExternal
        THEN <<[Type |-> "DISPLAY_NAME_MISMATCH", Confidence |-> 850]>>
        ELSE <<>>

DisplayNameDetect(e, rcpt, context) ==
    LET displayName  == ToLower(e.SenderName)
        senderDomain == extractDomain(e.SenderEmail)
        hasExecTitle == containsAny(displayName, execTitles)
        isExternal   == ~isInternalDomain(senderDomain, context.InternalDomains)
    IN  IF hasExecTitle /\ isExternal
        THEN Detection("DISPLAY_NAME_MISMATCH", DisplayNameConfidence)
        ELSE NoDetection

-----------------------------------------------------------------------------
(* typosquatting strategy *)

TyposquattingConfidence == 900

\* the test with similarity >= 85 in place of similarity > 85
IsTyposquatFrom85(senderDomain, trustedDomain) ==
    LET distance == levenshteinDistance(senderDomain, trustedDomain)
        maxLen   == Max2(Len(senderDomain), Len(trustedDomain))
    IN  /\ 100 * (maxLen - distance) >= 85 * maxLen
        /\ 100 * (maxLen - distance) < 100 * maxLen

\* similarity > 85 && similarity < 100 with
\* similarity = (1 - distance/maxLen) * 100, in integers:
\* 100*(maxLen - distance) > 85*maxLen  and  distance > 0
IsTyposquat(senderDomain, trustedDomain) ==
    LET distance == levenshteinDistance(senderDomain, trustedDomain)
        maxLen   == Max2(Len(senderDomain), Len(trustedDomain))
    IN  /\ 100 * (maxLen - distance) > 85 * maxLen
        /\ 100 * (maxLen - distance) < 100 * maxLen

RECURSIVE TyposquattingScan(_, _)
TyposquattingScan(senderDomain, trusted) ==
    IF trusted = <<>> THEN NoDetection
    ELSE IF senderDomain = Head(trusted) THEN TyposquattingScan(senderDomain, Tail(trusted))
    ELSE IF IsTyposquat(senderDomain, Head(trusted))
         THEN Detection("DOMAIN_TYPOSQUATTING", TyposquattingConfidence)
    ELSE TyposquattingScan(senderDomain, Tail(trusted))

\* the trustedDomain argument of the Evidence Sprintf: the list entry the loop
\* is at when it returns; <<>> when it runs to the end
RECURSIVE TyposquattingMatch(_, _)
TyposquattingMatch(senderDomain, trusted) ==
    IF trusted = <<>> THEN <<>>
    ELSE IF senderDomain = Head(trusted) THEN TyposquattingMatch(senderDomain, Tail(trusted))
    ELSE IF IsTyposquat(senderDomain, Head(trusted)) THEN <<Head(trusted)>>
    ELSE TyposquattingMatch(senderDomain, Tail(trusted))

TyposquattingDetect(e, rcpt, context) ==
    TyposquattingScan(extractDomain(e.SenderEmail), context.TrustedDomains)

-----------------------------------------------------------------------------
(* auth_failures_strategy.go *)

AuthFailuresConfidence == 800

AuthFailures(e) ==
    LET spf == IF "Received-SPF" \in DOMAIN e.Headers
                  /\ Contains(ToLower(e.Headers["Received-SPF"]), "fail")
               THEN <<"SPF_FAIL">> ELSE <<>>
        dkim == IF "Authentication-Results" \in DOMAIN e.Headers
                   /\ Contains(ToLower(e.Headers["Authentication-Results"]), "dkim=fail")
                THEN <<"DKIM_FAIL">> ELSE <<>>
        dmarc == IF "Authentication-Results" \in DOMAIN e.Headers
                    /\ Contains(ToLower(e.Headers["Authentication-Results"]), "dmarc=fail")
                 THEN <<"DMARC_FAIL">> ELSE <<>>
    IN  spf \o dkim \o dmarc

\* AuthFailuresDetect firing on a single failure
AuthFailuresDetectSingle(e, rcpt, context) ==
    IF Len(AuthFailures(e)) >= 1
    THEN <<[Type |-> "AUTH_FAILURES", Confidence |-> 800]>>
    ELSE <<>>

AuthFailuresDetect(e, rcpt, context) ==
    IF Len(AuthFailures(e)) >= 2
    THEN Detection("AUTH_FAILURES", AuthFailuresConfidence)
    ELSE NoDetection

-----------------------------------------------------------------------------
(* urgency + financial strategy *)

RECURSIVE countKeywords(_, _)
countKeywords(text, keywords) ==
    IF keywords = <<>> THEN 0
    ELSE (IF Contains(text, Head(keywords)) THEN 1 ELSE 0) + countKeywords(text, Tail(keywords))

UFUrgencyKeywords ==
    <<"urgent", "immediately", "asap", "right away", "time sensitive",
      "today", "end of day", "eod", "quick", "need this now", "hurry">>

UFFinancialKeywords ==
    <<"wire transfer", "payment", "invoice", "bank account", "routing number",
      "swift", "ach", "wire", "fund", "transfer", "pay", "urgent payment",
      "gift card", "itunes", "google play", "prepaid card">>

UFAuthorityKeywords ==
    <<"ceo", "president", "director", "approved", "authorized", "confidential",
      "do not discuss", "between us", "sensitive", "private">>

\* the text both keyword strategies scan
EmailText(e) == ToLower(e.Subject \o " " \o e.BodyPreview)

\* score = 0.3*u + 0.5*f + 0.2*a, in tenths
UFScore(u, f, a) == 3 * u + 5 * f + 2 * a

\* The float64 sum (u*0.3) + (f*0.5) + (a*0.2) against its exact value: over
\* all counts the three keyword lists allow (u <= 11, f <= 16, a <= 10) the
\* two fall on different sides of 1.5 for u = 1, f = 0, a = 6 only, where
\* 6 * 0.2 rounds to 1.2000000000000002 and the sum to 1.5000000000000002.
\* That is the sum of separately rounded products; a build that fuses
\* a*0.2 into the last addition rounds once and gets exactly 1.5.
UFRoundsAbove(u, f, a) == u = 1 /\ f = 0 /\ a = 6 /\ ~fusedMulAdd

\* score > 1.5 on the float64 score
UFScoreAboveThreshold(u, f, a) ==
    UFScore(u, f, a) > 15 \/ (UFScore(u, f, a) = 15 /\ UFRoundsAbove(u, f, a))

\* min(0.70 + (score - 1.5) * 0.1, 0.95), in thousandths (an excess of one
\* unit in the last place of the score leaves 0.70 unchanged)
UFConfidence(score) == Min2(700 + (score - 15) * 10, 950)

\* UrgencyFinancialDetect with the threshold at 3.0
UrgencyFinancialDetectStrict(e, rcpt, context) ==
    LET text  == EmailText(e)
        score == UFScore(countKeywords(text, UFUrgencyKeywords),
                         countKeywords(text, UFFinancialKeywords),
                         countKeywords(text, UFAuthorityKeywords))
    IN  IF score > 30
        THEN <<[Type |-> "URGENCY_FINANCIAL_LANGUAGE", Confidence |-> UFConfidence(score)]>>
        ELSE <<>>

UrgencyFinancialDetect(e, rcpt, context) ==
    LET text  == EmailText(e)
        u == countKeywords(text, UFUrgencyKeywords)
        f == countKeywords(text, UFFinancialKeywords)
        a == countKeywords(text, UFAuthorityKeywords)
    IN  IF UFScoreAboveThreshold(u, f, a)
        THEN Detection("URGENCY_FINANCIAL_LANGUAGE", UFConfidence(UFScore(u, f, a)))
        ELSE NoDetection

-----------------------------------------------------------------------------
(* reply_to_strategy.go *)

freeEmailDomains == <<"gmail.com", "yahoo.com", "hotmail.com", "outlook.com", "aol.com">>

ReplyToConfidence == 750

\* Detect without the comparison of the two domains
ReplyToDetectAnyFreemail(e, rcpt, context) ==
    LET senderEmail == ToLower(e.SenderEmail)
        replyTo     == ToLower(HeaderGet(e.Headers, "Reply-To"))
    IN  IF replyTo = "" \/ replyTo = senderEmail THEN <<>>
        ELSE IF \E i \in 1..Len(freeEmailDomains) : extractDomain(replyTo) = freeEmailDomains[i]
             THEN <<[Type |-> "REPLY_TO_MISMATCH", Confidence |-> 750]>>
             ELSE <<>>

ReplyToDetect(e, rcpt, context) ==
    LET senderEmail == ToLower(e.SenderEmail)
        replyTo     == ToLower(HeaderGet(e.Headers, "Reply-To"))
    IN  IF replyTo = "" \/ replyTo = senderEmail THEN NoDetection
        ELSE LET senderDomain  == extractDomain(senderEmail)
                 replyToDomain == extractDomain(replyTo)
                 isFreemail    == \E i \in 1..Len(freeEmailDomains) :
                                      replyToDomain = freeEmailDomains[i]
             IN  IF isFreemail /\ replyToDomain # senderDomain
                 THEN Detection("REPLY_TO_MISMATCH", ReplyToConfidence)
                 ELSE NoDetection

-----------------------------------------------------------------------------
(* attachment strategy *)

highRiskExtensions ==
    <<".exe", ".scr", ".bat", ".cmd", ".com", ".pif", ".vbs", ".js", ".jar", ".msi", ".app">>

mediumRiskExtensions == <<".doc", ".xls", ".xlsm", ".docm", ".pptm">>

HighRiskConfidence == 900
SuspiciousNameConfidence == 850
MediumRiskConfidence == 700

hasUrgencyLanguage(e) ==
    containsAny(EmailText(e), <<"urgent", "immediately", "asap", "right away", "today">>)

RECURSIVE hasAnySuffix(_, _)
hasAnySuffix(filename, exts) ==
    IF exts = <<>> THEN FALSE
    ELSE IF HasSuffix(filename, Head(exts)) THEN TRUE
    ELSE hasAnySuffix(filename, Tail(exts))

RECURSIVE AttachmentScan(_, _)
AttachmentScan(e, names) ==
    IF names = <<>> THEN NoDetection
    ELSE LET filename == ToLower(Head(names))
         IN  IF hasAnySuffix(filename, highRiskExtensions)
             THEN Detection("HIGH_RISK_ATTACHMENT", HighRiskConfidence)
             ELSE IF Count(filename, ".") > 1
             THEN Detection("SUSPICIOUS_ATTACHMENT_NAME", SuspiciousNameConfidence)
             ELSE IF hasAnySuffix(filename, mediumRiskExtensions) /\ hasUrgencyLanguage(e)
             THEN Detection("MEDIUM_RISK_ATTACHMENT_WITH_URGENCY", MediumRiskConfidence)
             ELSE AttachmentScan(e, Tail(names))

\* Detect without the HasAttachments test: the names alone decide
AttachmentDetectNamesOnly(e, rcpt, context) == AttachmentScan(e, e.AttachmentNames)

AttachmentDetect(e, rcpt, context) ==
    IF ~e.HasAttachments THEN NoDetection
    ELSE AttachmentScan(e, e.AttachmentNames)

-----------------------------------------------------------------------------
(* bec_role_strategy.go *)

cSuiteRoles ==
    <<"ceo", "cfo", "cto", "coo", "president", "chief", "vice president", "vp",
      "pdg", "président directeur général", "directeur général", "dg",
      "daf", "directeur administratif et financier", "directeur financier",
      "dsi", "directeur des systèmes d'information",
      "directeur", "direction générale">>

financeRoles ==
    <<"finance", "accounting", "treasurer", "controller", "payroll",
      "comptabilité", "comptable", "trésorier", "trésorerie",
      "contrôleur de gestion", "contrôleur financier",
      "responsable financier", "responsable comptable",
      "service comptable", "paie">>

hrRoles ==
    <<"hr", "human resources", "recruiting", "talent",
      "drh", "directeur des ressources humaines", "ressources humaines",
      "rh", "responsable rh", "responsable ressources humaines",
      "recrutement", "gestionnaire paie", "service rh">>

BECUrgencyKeywords ==
    <<"urgent", "immediately", "asap", "today", "right away", "now",
      "urgent", "immédiatement", "rapidement", "aujourd'hui",
      "tout de suite", "au plus vite", "dans l'immédiat",
      "sans délai", "prioritaire", "en urgence">>

wireTransferKeywords ==
    <<"wire transfer", "payment", "invoice", "bank account", "routing", "iban", "swift",
      "virement", "virement bancaire", "paiement", "facture",
      "compte bancaire", "rib", "relevé d'identité bancaire",
      "iban", "bic", "swift", "coordonnées bancaires",
      "ordre de virement", "transfert de fonds">>

payrollDocKeywords ==
    <<"tax form", "payroll",
      "bulletin de paie", "bulletin de salaire", "fiche de paie",
      "numéro de sécurité sociale", "n° sécurité sociale",
      "cotisations sociales", "déclaration de revenus",
      "dsn", "déclaration sociale nominative",
      "attestation fiscale", "salaires">>

BECCsuiteConfidence == 900
BECFinanceConfidence == 850
BECHRConfidence == 800
BECHighValueConfidence == 700

\* the cascade with the finance rule tried before the C-suite rule
BECDecideFinanceFirst(isCsuite, isFinance, isHR, hasUrgency, hasWireTransfer, hasPayrollDoc) ==
    IF isFinance /\ hasWireTransfer
    THEN <<[Type |-> "BEC_FINANCE_TARGETING", Confidence |-> 850]>>
    ELSE IF isCsuite /\ hasUrgency /\ hasWireTransfer
    THEN <<[Type |-> "BEC_CSUITE_TARGETING", Confidence |-> 900]>>
    ELSE IF isHR /\ hasPayrollDoc
    THEN <<[Type |-> "BEC_HR_PAYROLL_SCAM", Confidence |-> 800]>>
    ELSE IF (isCsuite \/ isFinance \/ isHR) /\ hasUrgency
    THEN <<[Type |-> "BEC_HIGH_VALUE_TARGET", Confidence |-> 700]>>
    ELSE <<>>

\* the rule cascade, lines 122-170
BECDecide(isCsuite, isFinance, isHR, hasUrgency, hasWireTransfer, hasPayrollDoc) ==
    IF isCsuite /\ hasUrgency /\ hasWireTransfer
    THEN Detection("BEC_CSUITE_TARGETING", BECCsuiteConfidence)
    ELSE IF isFinance /\ hasWireTransfer
    THEN Detection("BEC_FINANCE_TARGETING", BECFinanceConfidence)
    ELSE IF isHR /\ hasPayrollDoc
    THEN Detection("BEC_HR_PAYROLL_SCAM", BECHRConfidence)
    ELSE IF (isCsuite \/ isFinance \/ isHR) /\ hasUrgency
    THEN Detection("BEC_HIGH_VALUE_TARGET", BECHighValueConfidence)
    ELSE NoDetection

\* BECRoleDetect without the external-sender test
BECRoleDetectAnySender(e, rcpt, context) ==
    IF rcpt = <<>> \/ rcpt[1].Role = "" THEN <<>>
    ELSE LET role == ToLower(rcpt[1].Role)
             text == EmailText(e)
         IN  BECDecide(containsAny(role, cSuiteRoles), containsAny(role, financeRoles),
                       containsAny(role, hrRoles),
                       containsAny(text, BECUrgencyKeywords),
                       containsAny(text, wireTransferKeywords),
                       containsAny(text, payrollDocKeywords))

BECRoleDetect(e, rcpt, context) ==
    IF rcpt = <<>> \/ rcpt[1].Role = "" THEN NoDetection
    ELSE LET role         == ToLower(rcpt[1].Role)
             senderDomain == extractDomain(e.SenderEmail)
             isExternal   == ~isInternalDomain(senderDomain, context.InternalDomains)
         IN  IF ~isExternal THEN NoDetection
             ELSE LET isCsuite  == containsAny(role, cSuiteRoles)
                      isFinance == containsAny(role, financeRoles)
                      isHR      == containsAny(role, hrRoles)
                  IN  IF ~isCsuite /\ ~isFinance /\ ~isHR THEN NoDetection
                      ELSE LET text == EmailText(e)
                           IN  BECDecide(isCsuite, isFinance, isHR,
                                         containsAny(text, BECUrgencyKeywords),
                                         containsAny(text, wireTransferKeywords),
                                         containsAny(text, payrollDocKeywords))

-----------------------------------------------------------------------------
(* strategy.go: the Detector *)

\* NewDetector's list with the reply-to strategy constructed first
NewDetectorStrategiesReplyToFirst ==
    <<"ReplyTo", "DisplayName", "Typosquatting", "AuthFailures", "UrgencyFinancial",
      "Attachment", "BECRole">>

\* NewDetector's strategy list, in construction order
NewDetectorStrategies ==
    <<"DisplayName", "Typosquatting", "AuthFailures", "UrgencyFinancial",
      "ReplyTo", "Attachment", "BECRole">>

\* strategy.Detect(email, recipient, d.context), by dynamic dispatch
Detect(s, e, rcpt, context) ==
    CASE s = "DisplayName"      -> DisplayNameDetect(e, rcpt, context)
      [] s = "Typosquatting"    -> TyposquattingDetect(e, rcpt, context)
      [] s = "AuthFailures"     -> AuthFailuresDetect(e, rcpt, context)
      [] s = "UrgencyFinancial" -> UrgencyFinancialDetect(e, rcpt, context)
      [] s = "ReplyTo"          -> ReplyToDetect(e, rcpt, context)
      [] s = "Attachment"       -> AttachmentDetect(e, rcpt, context)
      [] s = "BECRole"          -> BECRoleDetect(e, rcpt, context)

\* the weights map of calculateRiskScore, in tenths
weights ==
    [t \in {"DOMAIN_TYPOSQUATTING", "DISPLAY_NAME_MISMATCH", "AUTH_FAILURES",
            "HIGH_RISK_ATTACHMENT", "SUSPICIOUS_ATTACHMENT_NAME",
            "URGENCY_FINANCIAL_LANGUAGE", "REPLY_TO_MISMATCH",
            "MEDIUM_RISK_ATTACHMENT_WITH_URGENCY", "BEC_CSUITE_TARGETING",
            "BEC_FINANCE_TARGETING", "BEC_HR_W2_SCAM", "BEC_HIGH_VALUE_TARGET"} |->
        CASE t = "DOMAIN_TYPOSQUATTING"                -> 15
          [] t = "DISPLAY_NAME_MISMATCH"               -> 13
          [] t = "AUTH_FAILURES"                       -> 12
          [] t = "HIGH_RISK_ATTACHMENT"                -> 15
          [] t = "SUSPICIOUS_ATTACHMENT_NAME"          -> 13
          [] t = "URGENCY_FINANCIAL_LANGUAGE"          -> 10
          [] t = "REPLY_TO_MISMATCH"                   -> 11
          [] t = "MEDIUM_RISK_ATTACHMENT_WITH_URGENCY" -> 10
          [] t = "BEC_CSUITE_TARGETING"                -> 16
          [] t = "BEC_FINANCE_TARGETING"               -> 15
          [] t = "BEC_HR_W2_SCAM"                      -> 14
          [] t = "BEC_HIGH_VALUE_TARGET"               -> 12]

\* typeWeight without the default: a missing key weighs 0
typeWeightNoDefault(type) == IF type \in DOMAIN weights THEN weights[type] ELSE 0

\* weights[detection.Type]: a Go map read, 0 for a missing key; then the default
typeWeight(type) ==
    LET weight == IF type \in DOMAIN weights THEN weights[type] ELSE 0
    IN  IF weight = 0 THEN 10 ELSE weight

\* the loop adding the weighted values up instead of keeping the largest
RECURSIVE ScoreLoopSum(_, _, _)
ScoreLoopSum(dets, i, maxScore) ==
    IF i > Len(dets) THEN maxScore
    ELSE ScoreLoopSum(dets, i + 1, maxScore + dets[i].Confidence * typeWeight(dets[i].Type))

\* the loop keeping the weighted value of the signal it saw last
RECURSIVE ScoreLoopLast(_, _, _)
ScoreLoopLast(dets, i, maxScore) ==
    IF i > Len(dets) THEN maxScore
    ELSE ScoreLoopLast(dets, i + 1, dets[i].Confidence * typeWeight(dets[i].Type))

\* the loop of calculateRiskScore from position i, with maxScore so far
RECURSIVE ScoreLoop(_, _, _)
ScoreLoop(dets, i, maxScore) ==
    IF i > Len(dets) THEN maxScore
    ELSE LET score == dets[i].Confidence * typeWeight(dets[i].Type)
         IN  ScoreLoop(dets, i + 1, IF score > maxScore THEN score ELSE maxScore)

\* calculateRiskScore without the cap at 1.0
calculateRiskScoreNoCap(dets) ==
    IF Len(dets) = 0 THEN 0
    ELSE ScoreLoop(dets, 1, 0)

calculateRiskScore(dets) ==
    IF Len(dets) = 0 THEN 0
    ELSE Min2(ScoreLoop(dets, 1, 0), 10000)

FraudAnalysis(dets) ==
    LET riskScore == calculateRiskScore(dets)
    IN  <<[RiskScore |-> riskScore, RiskLevel |-> RiskLevel(riskScore),
           DetectedThreats |-> dets]>>

-----------------------------------------------------------------------------
(* Inputs.  The detection contexts a Detector is constructed with, and the   *)
(* messages and recipients its callers pass.                                *)

Context(internal, trusted) == [InternalDomains |-> internal, TrustedDomains |-> trusted]

ContextPool ==
    { Context(<<"company.com">>, <<"microsoft.com", "paypal.com">>),
      Context(<<>>, <<>>),
      Context(<<"company.com", "company.fr">>, <<"paypal.com", "paypal.co", "microsoft.com">>) }

NoHeaders == [k \in {} |-> ""]
Headers1(k, v) == [x \in {k} |-> v]
Headers2(k1, v1, k2, v2) == [x \in {k1, k2} |-> IF x = k1 THEN v1 ELSE v2]

Text(subject, body) == [Subject |-> subject, BodyPreview |-> body]
Attachments(has, names) == [HasAttachments |-> has, AttachmentNames |-> names]
User(addr, role) == <<[Email |-> addr, Role |-> role]>>
NoUser == <<>>

Email(sender, name, text, headers, att) ==
    [SenderEmail |-> sender, SenderName |-> name,
     Subject |-> text.Subject, BodyPreview |-> text.BodyPreview,
     Headers |-> headers,
     HasAttachments |-> att.HasAttachments, AttachmentNames |-> att.AttachmentNames]

WireText ==
    Text("URGENT: Wire Transfer Required",
         "Please process this wire transfer immediately to our new bank account")
InvoiceText == Text("Invoice #12345", "Please find attached invoice for services rendered.")
PayrollText ==
    Text("Demande de bulletin de paie", "Merci de m'envoyer le bulletin de salaire des employes")
MeetingText == Text("Urgent: Meeting today", "We need to meet today to discuss the project.")
LunchText == Text("Hello", "See you at lunch")
EmptyText == Text("", "")

\* the messages and recipients AnalyzeEmail is called with
CallSenders == {"attacker@evil.com", "john@company.com", "user@micros0ft.com", "no-at-sign"}
CallNames == {"John Smith CEO", "Bob Jones"}
CallTexts == {WireText, InvoiceText, PayrollText, MeetingText, EmptyText}
CallHeaders ==
    { NoHeaders,
      Headers2("Reply-To", "attacker@gmail.com", "Received-SPF", "fail"),
      Headers2("Received-SPF", "Fail", "Authentication-Results", "dkim=fail; dmarc=pass") }
CallAttachments ==
    { Attachments(FALSE, <<>>),
      Attachments(TRUE, <<"notes.txt", "invoice.pdf.exe">>),
      Attachments(TRUE, <<"report.doc">>) }
CallRecipients ==
    { NoUser, User("ceo@company.com", "CEO"), User("hr@company.com", "HR Director"),
      User("dev@company.com", "Software Engineer") }

-----------------------------------------------------------------------------
(* FraudDetectionService: the frame of a call and the empty store *)

\* the frame when no service call is running
IdleService ==
    [pc |-> "idle", tenant |-> 0, users |-> <<>>, i |-> 0, emails |-> <<>>, j |-> 0,
     emailCount |-> 0, batch |-> <<>>, k |-> 0, analysis |-> <<>>,
     err |-> FALSE, failed |-> {}, log |-> <<>>]

\* the store after InitSchema, before any service call
NoService ==
    /\ usersTable = <<>>
    /\ emailsTable = <<>>
    /\ fraudAnalyses = <<>>
    /\ svc = IdleService
    /\ uuidCount = 0
    /\ runs = 0
    /\ faults = 0
    /\ snapshot = [users |-> <<>>, emails |-> <<>>]
    /\ analysisFailed = {}

-----------------------------------------------------------------------------
(* Callers sharing one *Detector *)

NumCallers == 2
Callers == 1..NumCallers

\* the frame of a caller that is not inside AnalyzeEmail
IdleFrame ==
    [pc |-> "idle", email |-> <<>>, recipient |-> NoUser, idx |-> 0, slice |-> 0,
     analysis |-> <<>>]

-----------------------------------------------------------------------------
\* the build the binary comes from, and nothing running beside the Detector
\* call
OtherInitFor(build) ==
    /\ fusedMulAdd = build
    /\ calls = [c \in Callers |-> IdleFrame]
    /\ slices = [c \in Callers |-> <<>>]
    /\ args = <<>>
    /\ result = <<>>
    /\ NoService

\* an amd64 build, as the Docker image is built by default
OtherInit == OtherInitFor(FALSE)

-----------------------------------------------------------------------------
(* Detector.AnalyzeEmail, one loop iteration per step *)

Init ==
    /\ ctx \in ContextPool
    /\ strategies = NewDetectorStrategies
    /\ email = <<>>
    /\ recipient = NoUser
    /\ pc = "idle"
    /\ idx = 0
    /\ detections = <<>>
    /\ analysis = <<>>
    /\ OtherInit

\* a caller enters AnalyzeEmail(email, recipient): detections := make(..., 0)
Call ==
    /\ pc = "idle"
    /\ \E s \in CallSenders, n \in CallNames, t \in CallTexts, h \in CallHeaders,
          a \in CallAttachments :
          email' = <<Email(s, n, t, h, a)>>
    /\ recipient' \in CallRecipients
    /\ detections' = <<>>
    /\ analysis' = <<>>
    /\ idx' = 1
    /\ pc' = "loop"
    /\ UNCHANGED <<ctx, strategies>>
    /\ UNCHANGED otherVars

\* one iteration of: for _, strategy := range d.strategies
RunStrategy ==
    /\ pc = "loop"
    /\ idx <= Len(strategies)
    /\ detections' = detections \o Detect(strategies[idx], email[1], recipient, ctx)
    /\ idx' = idx + 1
    /\ UNCHANGED <<ctx, strategies, email, recipient, pc, analysis>>
    /\ UNCHANGED otherVars

\* after the loop: calculateRiskScore and the returned FraudAnalysis
Aggregate ==
    /\ pc = "loop"
    /\ idx > Len(strategies)
    /\ analysis' = FraudAnalysis(detections)
    /\ pc' = "done"
    /\ UNCHANGED <<ctx, strategies, email, recipient, idx, detections>>
    /\ UNCHANGED otherVars

\* the caller takes the verdict; the Detector is ready for the next call
Return ==
    /\ pc = "done"
    /\ email' = <<>>
    /\ recipient' = NoUser
    /\ detections' = <<>>
    /\ analysis' = <<>>
    /\ idx' = 0
    /\ pc' = "idle"
    /\ UNCHANGED <<ctx, strategies>>
    /\ UNCHANGED otherVars

Next == Call \/ RunStrategy \/ Aggregate \/ Return

Spec == Init /\ [][Next]_vars

-----------------------------------------------------------------------------
(* Each strategy's Detect called on its own, as the package's unit tests    *)
(* call it: idx names the strategy called, detections holds what it         *)
(* returned.                                                                *)

NoAttachments == Attachments(FALSE, <<>>)

InvoicePayText == Text("Invoice Payment", "Please process payment for invoice via wire transfer")
GiftCardText ==
    Text("Need this done today",
         "Hi, I need you to purchase some iTunes gift cards urgently. Please send codes ASAP. CEO")
HurryText == Text("Urgent - hurry", "Quick, I need this now, ASAP, by end of day today")
SecretText ==
    Text("Confidential", "Approved by the president, private and sensitive: do not discuss")
UrgentPayrollText == Text("Urgent payroll update", "Send the tax form today")
\* one urgency keyword, no financial keyword, six authority keywords
AuthorityText ==
    Text("Urgent", "Approved by the CEO and president, confidential, private and sensitive")

DisplayNameSenders ==
    {"attacker@evil.com", "john@company.com", "John@COMPANY.COM", "jane@phishing.com",
     "user@company.fr", "no-at-sign", "a@b@company.com", ""}
DisplayNameNames ==
    {"John Smith CEO", "Jane Doe, CFO", "Bob Jones", "", "VP Sales", "The Director",
     "Vice President", "Chief of Staff", "PRESIDENT", "Vip Desk"}

TyposquattingSenders ==
    {"user@microsoft.com", "user@micros0ft.com", "user@microsfot.com", "user@paypa1.com",
     "user@example.com", "billing@paypal.co", "user@PAYPAL.COM", "user@paypal.com",
     "user@paypall.com", "no-at-sign", "a@b@paypa1.com", "user@"}

SPFValues == {"pass", "fail", "Fail (domain does not designate sender)", "softfail"}
AuthResultsValues ==
    {"dkim=pass; dmarc=pass", "dkim=fail; dmarc=pass", "dkim=pass; dmarc=fail",
     "DKIM=FAIL; DMARC=FAIL", "spf=fail; dkim=pass", "dkim=fail"}
AuthFailuresHeaders ==
    {NoHeaders, Headers1("received-spf", "fail"),
     Headers2("received-spf", "fail", "authentication-results", "dkim=fail; dmarc=fail")}
    \cup {Headers1("Received-SPF", v) : v \in SPFValues}
    \cup {Headers1("Authentication-Results", v) : v \in AuthResultsValues}
    \cup {Headers2("Received-SPF", v, "Authentication-Results", w) :
            v \in SPFValues, w \in AuthResultsValues}

UrgencyFinancialTexts ==
    {WireText, InvoiceText, PayrollText, MeetingText, LunchText, EmptyText,
     InvoicePayText, GiftCardText, HurryText, SecretText, UrgentPayrollText,
     AuthorityText}
    \cup {Text(t.Subject, u.BodyPreview) : t \in {MeetingText, SecretText, InvoicePayText},
                                           u \in {LunchText, HurryText, SecretText, WireText}}

ReplyToSenders == {"ceo@company.com", "User@Company.com", "user@gmail.com", "no-at-sign"}
ReplyToHeaders ==
    {NoHeaders, Headers1("reply-to", "attacker@gmail.com")}
    \cup {Headers1("Reply-To", v) :
            v \in {"", "attacker@gmail.com", "ceo@company.com", "user@company.com",
                   "user@corporate.com", "Attacker@GMAIL.com", "other@gmail.com",
                   "user@gmail.com", "x@yahoo.com", "x@hotmail.com", "x@outlook.com",
                   "x@aol.com", "x@mail.gmail.com", "gmail.com", "a@b@gmail.com"}}

AttachmentLists ==
    {<<>>, <<"invoice.pdf">>, <<"setup.exe">>, <<"Invoice.PDF.EXE">>, <<"invoice.pdf.zip">>,
     <<"report.doc">>, <<"report.docx">>, <<"Budget.XLSM">>, <<"notes.txt", "run.bat">>,
     <<"report.doc", "setup.exe">>, <<"a.b.doc", "setup.exe">>, <<"readme", "macro.docm">>}
AttachmentInputs == {Attachments(h, n) : h \in BOOLEAN, n \in AttachmentLists}
AttachmentTexts == {WireText, InvoiceText, MeetingText, LunchText, EmptyText}

BECRecipients ==
    {NoUser} \cup
    {User("rcpt@company.com", r) :
        r \in {"", "CEO", "CFO", "Finance Manager", "HR Director", "Software Engineer",
               "Payroll Specialist", "DRH", "VP Finance", "Receptionist"}}
BECSenders == {"attacker@evil.com", "colleague@company.com", "Boss@Company.COM", "no-at-sign"}
BECTexts ==
    {WireText, InvoicePayText, PayrollText, MeetingText, LunchText, EmptyText,
     UrgentPayrollText, GiftCardText}

InitDetect ==
    /\ ctx \in ContextPool
    /\ strategies = NewDetectorStrategies
    /\ email = <<>>
    /\ recipient = NoUser
    /\ pc = "unit"
    /\ idx = 0
    /\ detections = <<>>
    /\ analysis = <<>>
    /\ \E build \in BOOLEAN : OtherInitFor(build)

\* Unit<S>: New<S>Strategy().Detect(email, recipient, context) with the test's inputs
UnitDisplayName ==
    /\ pc = "unit"
    /\ \E s \in DisplayNameSenders, n \in DisplayNameNames :
          /\ email' = <<Email(s, n, EmptyText, NoHeaders, NoAttachments)>>
          /\ recipient' = NoUser
    /\ idx' = 1
    /\ detections' = Detect(strategies[1], email'[1], recipient', ctx)
    /\ pc' = "called"
    /\ UNCHANGED <<ctx, strategies, analysis>>
    /\ UNCHANGED otherVars

UnitTyposquatting ==
    /\ pc = "unit"
    /\ \E s \in TyposquattingSenders :
          /\ email' = <<Email(s, "", EmptyText, NoHeaders, NoAttachments)>>
          /\ recipient' = NoUser
    /\ idx' = 2
    /\ detections' = Detect(strategies[2], email'[1], recipient', ctx)
    /\ pc' = "called"
    /\ UNCHANGED <<ctx, strategies, analysis>>
    /\ UNCHANGED otherVars

UnitAuthFailures ==
    /\ pc = "unit"
    /\ \E h \in AuthFailuresHeaders :
          /\ email' = <<Email("user@example.com", "", EmptyText, h, NoAttachments)>>
          /\ recipient' = NoUser
    /\ idx' = 3
    /\ detections' = Detect(strategies[3], email'[1], recipient', ctx)
    /\ pc' = "called"
    /\ UNCHANGED <<ctx, strategies, analysis>>
    /\ UNCHANGED otherVars

UnitUrgencyFinancial ==
    /\ pc = "unit"
    /\ \E t \in UrgencyFinancialTexts :
          /\ email' = <<Email("user@example.com", "", t, NoHeaders, NoAttachments)>>
          /\ recipient' = NoUser
    /\ idx' = 4
    /\ detections' = Detect(strategies[4], email'[1], recipient', ctx)
    /\ pc' = "called"
    /\ UNCHANGED <<ctx, strategies, analysis>>
    /\ UNCHANGED otherVars

UnitReplyTo ==
    /\ pc = "unit"
    /\ \E s \in ReplyToSenders, h \in ReplyToHeaders :
          /\ email' = <<Email(s, "", EmptyText, h, NoAttachments)>>
          /\ recipient' = NoUser
    /\ idx' = 5
    /\ detections' = Detect(strategies[5], email'[1], recipient', ctx)
    /\ pc' = "called"
    /\ UNCHANGED <<ctx, strategies, analysis>>
    /\ UNCHANGED otherVars

UnitAttachment ==
    /\ pc = "unit"
    /\ \E a \in AttachmentInputs, t \in AttachmentTexts :
          /\ email' = <<Email("user@example.com", "", t, NoHeaders, a)>>
          /\ recipient' = NoUser
    /\ idx' = 6
    /\ detections' = Detect(strategies[6], email'[1], recipient', ctx)
    /\ pc' = "called"
    /\ UNCHANGED <<ctx, strategies, analysis>>
    /\ UNCHANGED otherVars

UnitBECRole ==
    /\ pc = "unit"
    /\ \E s \in BECSenders, t \in BECTexts, r \in BECRecipients :
          /\ email' = <<Email(s, "", t, NoHeaders, NoAttachments)>>
          /\ recipient' = r
    /\ idx' = 7
    /\ detections' = Detect(strategies[7], email'[1], recipient', ctx)
    /\ pc' = "called"
    /\ UNCHANGED <<ctx, strategies, analysis>>
    /\ UNCHANGED otherVars

\* the test case ends; the next one starts from a fresh strategy and email
UnitReturn ==
    /\ pc = "called"
    /\ email' = <<>>
    /\ recipient' = NoUser
    /\ idx' = 0
    /\ detections' = <<>>
    /\ pc' = "unit"
    /\ UNCHANGED <<ctx, strategies, analysis>>
    /\ UNCHANGED otherVars

NextDetect ==
    \/ UnitDisplayName
    \/ UnitTyposquatting
    \/ UnitAuthFailures
    \/ UnitUrgencyFinancial
    \/ UnitReplyTo
    \/ UnitAttachment
    \/ UnitBECRole
    \/ UnitReturn

SpecDetect == InitDetect /\ [][NextDetect]_vars

-----------------------------------------------------------------------------
(* calculateRiskScore called on its own, as TestDetector_CalculateRiskScore *)
(* calls it, on every list of at most MaxSignals detections                 *)

MaxSignals == 3

SignalPool ==
    { Detection("DOMAIN_TYPOSQUATTING", 900)[1],
      Detection("DISPLAY_NAME_MISMATCH", 850)[1],
      Detection("AUTH_FAILURES", 800)[1],
      Detection("URGENCY_FINANCIAL_LANGUAGE", 700)[1],
      Detection("URGENCY_FINANCIAL_LANGUAGE", 950)[1],
      Detection("REPLY_TO_MISMATCH", 750)[1],
      Detection("MEDIUM_RISK_ATTACHMENT_WITH_URGENCY", 700)[1],
      Detection("BEC_HR_PAYROLL_SCAM", 800)[1],
      Detection("BEC_HIGH_VALUE_TARGET", 700)[1],
      Detection("BEC_HIGH_VALUE_TARGET", 250)[1],
      Detection("REPLY_TO_MISMATCH", 0)[1],
      Detection("UNKNOWN_TYPE", 600)[1],
      Detection("UNKNOWN_TYPE", 1000)[1] }

SignalLists == UNION {[1..n -> SignalPool] : n \in 0..MaxSignals}

InitScore ==
    /\ ctx = Context(<<>>, <<>>)
    /\ strategies = NewDetectorStrategies
    /\ email = <<>>
    /\ recipient = NoUser
    /\ pc = "score"
    /\ idx = 0
    /\ detections \in SignalLists
    /\ analysis = <<>>
    /\ OtherInit

\* score := detector.calculateRiskScore(detections); level := domain.RiskLevel(score)
ScoreCall ==
    /\ pc = "score"
    /\ analysis = <<>>
    /\ analysis' = FraudAnalysis(detections)
    /\ UNCHANGED <<ctx, strategies, email, recipient, pc, idx, detections>>
    /\ UNCHANGED otherVars

NextScore == ScoreCall

SpecScore == InitScore /\ [][NextScore]_vars

-----------------------------------------------------------------------------
(* PostgresStore: the tables as sequences of rows in insertion order.  A   *)
(* uuid is a number drawn from uuidCount; processed_at is the flag         *)
(* Processed (NULL = FALSE); received_at is a number.  The rows of tenants  *)
(* are written once by main before any of this runs and are not modelled;  *)
(* fraud_analyses.id, a fresh uuid per row, is not modelled either.        *)

\* INSERT INTO users ... ON CONFLICT (tenant_id, provider_user_id) DO UPDATE
\* SET email, display_name, role
CreateUser(tbl, user) ==
    IF \E i \in 1..Len(tbl) : /\ tbl[i].TenantID = user.TenantID
                              /\ tbl[i].ProviderUserID = user.ProviderUserID
    THEN [i \in 1..Len(tbl) |->
            IF tbl[i].TenantID = user.TenantID /\ tbl[i].ProviderUserID = user.ProviderUserID
            THEN [tbl[i] EXCEPT !.Email = user.Email, !.DisplayName = user.DisplayName,
                                !.Role = user.Role]
            ELSE tbl[i]]
    ELSE Append(tbl, user)

\* SELECT ... FROM users WHERE tenant_id = $1 AND email = $2, first row;
\* (nil, nil) on sql.ErrNoRows
GetUserByEmail(tbl, tenantID, addr) ==
    LET hits == {i \in 1..Len(tbl) : tbl[i].TenantID = tenantID /\ tbl[i].Email = addr}
    IN  IF hits = {} THEN <<>>
        ELSE <<tbl[CHOOSE i \in hits : \A k \in hits : i <= k]>>

\* the INSERT of CreateEmail meets a row with the same (tenant_id, provider_message_id)
EmailConflict(tbl, e) ==
    \E i \in 1..Len(tbl) : /\ tbl[i].TenantID = e.TenantID
                           /\ tbl[i].ProviderMessageID = e.ProviderMessageID

\* user_id REFERENCES users(id): checked for a row that is inserted
EmailForeignKeyOK(users, e) == \E i \in 1..Len(users) : users[i].ID = e.UserID

\* INSERT INTO emails without the ON CONFLICT clause and without the unique index
CreateEmailNoConflictClause(tbl, e) == Append(tbl, e)

\* INSERT INTO emails ... ON CONFLICT (tenant_id, provider_message_id) DO NOTHING
CreateEmail(tbl, e) ==
    IF EmailConflict(tbl, e) THEN tbl ELSE Append(tbl, e)

\* the rows of tbl at the positions in S, by received_at ascending (rows with
\* equal received_at in table order)
OrderByReceivedAt(tbl, S) ==
    LET Before(k, i) == \/ tbl[k].ReceivedAt < tbl[i].ReceivedAt
                        \/ (tbl[k].ReceivedAt = tbl[i].ReceivedAt /\ k <= i)
        rank == [i \in S |-> Cardinality({k \in S : Before(k, i)})]
    IN  [r \in 1..Cardinality(S) |-> tbl[CHOOSE i \in S : rank[i] = r]]

\* SELECT ... FROM emails WHERE processed_at IS NULL ORDER BY received_at ASC LIMIT $1
GetUnprocessedEmails(tbl, limit) ==
    LET rows == OrderByReceivedAt(tbl, {i \in 1..Len(tbl) : ~tbl[i].Processed})
    IN  SubSeq(rows, 1, Min2(limit, Len(rows)))

\* UPDATE emails SET processed_at = NOW() WHERE id = $1
MarkEmailProcessed(tbl, emailID) ==
    [i \in 1..Len(tbl) |-> IF tbl[i].ID = emailID THEN [tbl[i] EXCEPT !.Processed = TRUE]
                           ELSE tbl[i]]

\* INSERT INTO fraud_analyses (id, email_id, risk_score, risk_level, detected_threats, ...)
CreateFraudAnalysis(tbl, a) == Append(tbl, a)

-----------------------------------------------------------------------------
(* The provider adapters (mock data) and main's tenants *)

\* main's two tenants; their ids are the first two uuids
Tenants ==
    <<[ID |-> 1, Name |-> "Acme Insurance Co.", Provider |-> "microsoft"],
      [ID |-> 2, Name |-> "Beta Corp.", Provider |-> "google"]>>

ProviderUser(id, tenantID, providerUserID, addr, name, role) ==
    [ID |-> id, TenantID |-> tenantID, ProviderUserID |-> providerUserID,
     Email |-> addr, DisplayName |-> name, Role |-> role]

\* MicrosoftClient.GetUsers / GoogleClient.GetUsers: the same users on every
\* call, each with a fresh uuid
GetUsers(provider, tenantID, uuid) ==
    IF provider = "microsoft"
    THEN <<ProviderUser(uuid + 1, tenantID, "user-1", "john.doe@company.com", "John Doe", "CFO"),
           ProviderUser(uuid + 2, tenantID, "user-2", "jane.smith@company.com", "Jane Smith",
                        "HR Director")>>
    ELSE <<ProviderUser(uuid + 1, tenantID, "google-user-1", "alice@example.com",
                        "Alice Johnson", "CEO")>>

\* one hour of received_at, against a clock that ticks once per uuid drawn
Hour == 1000

\* MicrosoftClient.GetEmails / GoogleClient.GetEmails: one message per call,
\* whatever the user, with a fresh uuid and the zero TenantID
GetEmails(provider, userID, uuid) ==
    IF provider = "microsoft"
    THEN <<[ID |-> uuid + 1, TenantID |-> 0, UserID |-> userID,
            ProviderMessageID |-> "msg-001",
            Subject |-> "Urgent: Wire Transfer Needed",
            SenderEmail |-> "john@external-domain.com",
            SenderName |-> "CEO John Smith",
            RecipientEmail |-> "john.doe@company.com",
            ReceivedAt |-> uuid - 1 * Hour,
            HasAttachments |-> FALSE, AttachmentNames |-> <<>>,
            BodyPreview |-> "Please process this wire transfer immediately...",
            Headers |-> NoHeaders,
            Processed |-> FALSE]>>
    ELSE <<[ID |-> uuid + 1, TenantID |-> 0, UserID |-> userID,
            ProviderMessageID |-> "gmail-msg-001",
            Subject |-> "Invoice #4821 - Payment Required",
            SenderEmail |-> "accounts@companny.com",
            SenderName |-> "accounts@companny.com",
            RecipientEmail |-> "alice@example.com",
            ReceivedAt |-> uuid - 2 * Hour,
            HasAttachments |-> FALSE, AttachmentNames |-> <<>>,
            BodyPreview |-> "Please find attached invoice for immediate payment. Wire transfer to the new account urgently.",
            Headers |-> Headers1("Reply-To", "urgent-payments@gmail.com"),
            Processed |-> FALSE]>>

\* the loop of AnalyzeEmail over strats[1..n]
RECURSIVE RunStrategies(_, _, _, _, _)
RunStrategies(strats, e, rcpt, context, n) ==
    IF n = 0 THEN <<>>
    ELSE LET before == RunStrategies(strats, e, rcpt, context, n - 1)
         IN  IF Len(before) <= n THEN before \o Detect(strats[n], e, rcpt, context)
             ELSE before

\* d.AnalyzeEmail(email, recipient) as one call
AnalyzeEmail(strats, context, e, rcpt) ==
    LET dets == RunStrategies(strats, e, rcpt, context, Len(strats))
        riskScore == calculateRiskScore(dets)
    IN  [EmailID |-> e.ID, RiskScore |-> riskScore, RiskLevel |-> RiskLevel(riskScore),
         DetectedThreats |-> dets]

-----------------------------------------------------------------------------
(* AnalyzeEmail run by several callers on one shared Detector.  Each frame  *)
(* holds the call's parameters and locals; ctx and strategies are the       *)
(* fields of the Detector all of them read.  A step is one loop iteration   *)
(* of one caller, so the calls interleave at every strategy.                *)

\* detections := make([]domain.Detection, 0), kept by one Detector for all calls
MakeSliceOnDetector(c) == 1

\* detections := make([]domain.Detection, 0): a slice no other running call holds
MakeSlice(c) == c

AttackMail ==
    Email("attacker@evil.com", "John Smith CEO", WireText,
          Headers1("Reply-To", "attacker@gmail.com"), NoAttachments)
BenignMail == Email("john@company.com", "Bob Jones", LunchText, NoHeaders, NoAttachments)

\* the (message, recipient) pairs the callers pass
ConcInputs ==
    { <<AttackMail, User("ceo@company.com", "CEO")>>,
      <<AttackMail, NoUser>>,
      <<BenignMail, NoUser>> }

\* the context main constructs its one Detector with
MainContext ==
    Context(<<"company.com", "example.com">>, <<"microsoft.com", "google.com", "paypal.com">>)

InitConc ==
    /\ ctx = MainContext
    /\ strategies = NewDetectorStrategies
    /\ email = <<>>
    /\ recipient = NoUser
    /\ pc = "shared"
    /\ idx = 0
    /\ detections = <<>>
    /\ analysis = <<>>
    /\ fusedMulAdd = FALSE
    /\ calls = [c \in Callers |-> IdleFrame]
    /\ slices = [c \in Callers |-> <<>>]
    /\ args = <<>>
    /\ result = <<>>
    /\ NoService

ConcCall(c) ==
    /\ calls[c].pc = "idle"
    /\ \E in \in ConcInputs :
          calls' = [calls EXCEPT ![c] =
                       [pc |-> "loop", email |-> <<in[1]>>, recipient |-> in[2], idx |-> 1,
                        slice |-> MakeSlice(c), analysis |-> <<>>]]
    /\ slices' = [slices EXCEPT ![MakeSlice(c)] = <<>>]
    /\ UNCHANGED <<detVars, fusedMulAdd, args, result, svcVars>>

ConcRunStrategy(c) ==
    /\ calls[c].pc = "loop"
    /\ calls[c].idx <= Len(strategies)
    /\ slices' = [slices EXCEPT ![calls[c].slice] =
                     @ \o Detect(strategies[calls[c].idx], calls[c].email[1],
                                 calls[c].recipient, ctx)]
    /\ calls' = [calls EXCEPT ![c].idx = @ + 1]
    /\ UNCHANGED <<detVars, fusedMulAdd, args, result, svcVars>>

ConcAggregate(c) ==
    /\ calls[c].pc = "loop"
    /\ calls[c].idx > Len(strategies)
    /\ calls' = [calls EXCEPT ![c].analysis = FraudAnalysis(slices[calls[c].slice]),
                              ![c].pc = "done"]
    /\ UNCHANGED <<detVars, fusedMulAdd, slices, args, result, svcVars>>

ConcReturn(c) ==
    /\ calls[c].pc = "done"
    /\ calls' = [calls EXCEPT ![c] = IdleFrame]
    /\ UNCHANGED <<detVars, fusedMulAdd, slices, args, result, svcVars>>

NextConc ==
    \E c \in Callers :
        \/ ConcCall(c)
        \/ ConcRunStrategy(c)
        \/ ConcAggregate(c)
        \/ ConcReturn(c)

SpecConc == InitConc /\ [][NextConc]_vars

-----------------------------------------------------------------------------
(* levenshteinDistance called on its own, as TestLevenshteinDistance calls  *)
(* it, on every pair of strings of at most MaxLen letters                   *)

MaxLen == 3
Alphabet == {"a", "b", "c"}

RECURSIVE StringsOfLen(_)
StringsOfLen(n) ==
    IF n = 0 THEN {""}
    ELSE {s \o c : s \in StringsOfLen(n - 1), c \in Alphabet}

LevStrings == UNION {StringsOfLen(n) : n \in 0..MaxLen}

\* the pairs of the test's table
TestLevPairs ==
    { <<"abc", "ab">>, <<"microsoft", "micros0ft">>, <<"paypal", "paypa1">>,
      <<"google", "g00gle">> }

InitLev ==
    /\ ctx = Context(<<>>, <<>>)
    /\ strategies = NewDetectorStrategies
    /\ email = <<>>
    /\ recipient = NoUser
    /\ pc = "lev"
    /\ idx = 0
    /\ detections = <<>>
    /\ analysis = <<>>
    /\ fusedMulAdd = FALSE
    /\ calls = [c \in Callers |-> IdleFrame]
    /\ slices = [c \in Callers |-> <<>>]
    /\ args \in (LevStrings \X LevStrings) \cup TestLevPairs
    /\ result = <<>>
    /\ NoService

\* result := levenshteinDistance(tt.s1, tt.s2)
LevCall ==
    /\ pc = "lev"
    /\ result = <<>>
    /\ result' = <<levenshteinDistance(args[1], args[2])>>
    /\ UNCHANGED <<detVars, fusedMulAdd, calls, slices, args, svcVars>>

NextLev == LevCall

SpecLev == InitLev /\ [][NextLev]_vars

-----------------------------------------------------------------------------
(* FraudDetectionService on the PostgresStore, driven as main drives it:    *)
(* one call at a time, IngestEmailsForTenant or ProcessUnprocessedEmails    *)
(* for one of the tenants.  A step is one provider or storage call with the *)
(* code around it.  Any provider or storage call may return an error, at    *)
(* most MaxFaults times in a run of the program.                            *)

MaxRuns == 3
MaxFaults == 1

\* s.storage.GetUnprocessedEmails(ctx, 100)
BatchLimit == 100

\* whether the next provider or storage call may return an error
MayFail == IF faults < MaxFaults THEN {FALSE, TRUE} ELSE {FALSE}

\* where ProcessUnprocessedEmails goes after CreateFraudAnalysis, were the
\* failure branch to fall through to MarkEmailProcessed
AfterCreateFraudAnalysisFallThrough(failed) == "mark"

\* where ProcessUnprocessedEmails goes after CreateFraudAnalysis: on an error
\* `continue`, to the next email, otherwise on to MarkEmailProcessed
AfterCreateFraudAnalysis(failed) == IF failed THEN "analyze" ELSE "mark"

\* the user loop after GetEmails failed, were the error to end the loop
LastUserAfterError(i, n) == n + 1

\* the user loop after GetEmails failed: `continue`, on to the next user
NextUserAfterError(i, n) == i + 1

\* the email loop after CreateFraudAnalysis failed, were the error to end the loop
LastEmailAfterError(k, n) == n + 1

\* the email loop after CreateFraudAnalysis failed: `continue`, on to the next email
NextEmailAfterError(k, n) == k + 1

InitService ==
    /\ ctx = MainContext
    /\ strategies = NewDetectorStrategies
    /\ email = <<>>
    /\ recipient = NoUser
    /\ pc = "service"
    /\ idx = 0
    /\ detections = <<>>
    /\ analysis = <<>>
    /\ fusedMulAdd = FALSE
    /\ calls = [c \in Callers |-> IdleFrame]
    /\ slices = [c \in Callers |-> <<>>]
    /\ args = <<>>
    /\ result = <<>>
    /\ usersTable = <<>>
    /\ emailsTable = <<>>
    /\ fraudAnalyses = <<>>
    /\ svc = IdleService
    /\ uuidCount = Len(Tenants)
    /\ runs = 0
    /\ faults = 0
    /\ snapshot = [users |-> <<>>, emails |-> <<>>]
    /\ analysisFailed = {}

svcFrame == <<detVars, fusedMulAdd, calls, slices, args, result>>

\* IngestEmailsForTenant, lines 44-56: the provider lookup and GetUsers
IngestStart ==
    /\ svc.pc = "idle"
    /\ runs < MaxRuns
    /\ runs' = runs + 1
    /\ snapshot' = [users |-> usersTable, emails |-> emailsTable]
    /\ \E t \in 1..Len(Tenants), failed \in MayFail :
          IF failed
          THEN /\ faults' = faults + 1
               /\ svc' = [IdleService EXCEPT !.pc = "ingestError", !.tenant = t, !.err = TRUE]
               /\ UNCHANGED uuidCount
          ELSE LET users == GetUsers(Tenants[t].Provider, Tenants[t].ID, uuidCount)
               IN  /\ svc' = [IdleService EXCEPT !.pc = "storeUsers", !.tenant = t,
                                                  !.users = users, !.i = 1]
                   /\ uuidCount' = uuidCount + Len(users)
                   /\ UNCHANGED faults
    /\ UNCHANGED <<svcFrame, usersTable, emailsTable, fraudAnalyses, analysisFailed>>

\* lines 47-50: the tenant's provider is not in the registry
IngestUnsupportedProvider ==
    /\ svc.pc = "idle"
    /\ runs < MaxRuns
    /\ runs' = runs + 1
    /\ snapshot' = [users |-> usersTable, emails |-> emailsTable]
    /\ svc' = [IdleService EXCEPT !.pc = "ingestError", !.err = TRUE]
    /\ UNCHANGED <<svcFrame, usersTable, emailsTable, fraudAnalyses, uuidCount, faults,
                   analysisFailed>>

\* lines 60-67, one iteration: CreateUser, on an error log and continue
IngestStoreUser ==
    /\ svc.pc = "storeUsers"
    /\ svc.i <= Len(svc.users)
    /\ \E failed \in MayFail :
          IF failed
          THEN /\ faults' = faults + 1
               /\ svc' = [svc EXCEPT !.i = @ + 1, !.failed = @ \cup {svc.i}]
               /\ UNCHANGED usersTable
          ELSE /\ usersTable' =
                     CreateUser(usersTable,
                                [svc.users[svc.i] EXCEPT !.TenantID = Tenants[svc.tenant].ID])
               /\ svc' = [svc EXCEPT !.i = @ + 1]
               /\ UNCHANGED faults
    /\ UNCHANGED <<svcFrame, emailsTable, fraudAnalyses, uuidCount, runs, snapshot,
                   analysisFailed>>

\* lines 71-74: the first loop is over, the second starts
IngestUsersStored ==
    /\ svc.pc = "storeUsers"
    /\ svc.i > Len(svc.users)
    /\ svc' = [svc EXCEPT !.pc = "fetchEmails", !.i = 1, !.emailCount = 0]
    /\ UNCHANGED <<svcFrame, usersTable, emailsTable, fraudAnalyses, uuidCount, runs,
                   faults, snapshot, analysisFailed>>

\* lines 74-79, one iteration's head: GetEmails, on an error log and continue
IngestFetchEmails ==
    /\ svc.pc = "fetchEmails"
    /\ svc.i <= Len(svc.users)
    /\ \E failed \in MayFail :
          IF failed
          THEN /\ faults' = faults + 1
               /\ svc' = [svc EXCEPT !.i = NextUserAfterError(svc.i, Len(svc.users)),
                                      !.failed = @ \cup {svc.i}]
               /\ UNCHANGED uuidCount
          ELSE LET emails == GetEmails(Tenants[svc.tenant].Provider, svc.users[svc.i].ID,
                                       uuidCount)
               IN  /\ svc' = [svc EXCEPT !.pc = "storeEmails", !.emails = emails, !.j = 1]
                   /\ uuidCount' = uuidCount + Len(emails)
                   /\ UNCHANGED faults
    /\ UNCHANGED <<svcFrame, usersTable, emailsTable, fraudAnalyses, runs, snapshot,
                   analysisFailed>>

\* lines 81-89, one iteration: TenantID and UserID set, CreateEmail; the insert
\* fails on an injected error or on user_id naming no row of users
IngestStoreEmail ==
    /\ svc.pc = "storeEmails"
    /\ svc.j <= Len(svc.emails)
    /\ LET e == [svc.emails[svc.j] EXCEPT !.TenantID = Tenants[svc.tenant].ID,
                                          !.UserID = svc.users[svc.i].ID]
       IN  \E failed \in MayFail :
              IF failed
              THEN /\ faults' = faults + 1
                   /\ svc' = [svc EXCEPT !.j = @ + 1, !.failed = @ \cup {svc.i}]
                   /\ UNCHANGED emailsTable
              ELSE IF ~EmailConflict(emailsTable, e) /\ ~EmailForeignKeyOK(usersTable, e)
              THEN /\ svc' = [svc EXCEPT !.j = @ + 1, !.failed = @ \cup {svc.i}]
                   /\ UNCHANGED <<emailsTable, faults>>
              ELSE /\ emailsTable' = CreateEmail(emailsTable, e)
                   /\ svc' = [svc EXCEPT !.j = @ + 1, !.emailCount = @ + 1]
                   /\ UNCHANGED faults
    /\ UNCHANGED <<svcFrame, usersTable, fraudAnalyses, uuidCount, runs, snapshot,
                   analysisFailed>>

\* the inner loop is over: the next user
IngestEmailsStored ==
    /\ svc.pc = "storeEmails"
    /\ svc.j > Len(svc.emails)
    /\ svc' = [svc EXCEPT !.pc = "fetchEmails", !.i = @ + 1, !.emails = <<>>, !.j = 0]
    /\ UNCHANGED <<svcFrame, usersTable, emailsTable, fraudAnalyses, uuidCount, runs,
                   faults, snapshot, analysisFailed>>

\* lines 92-93: return nil
IngestDone ==
    /\ svc.pc = "fetchEmails"
    /\ svc.i > Len(svc.users)
    /\ svc' = [svc EXCEPT !.pc = "ingested"]
    /\ UNCHANGED <<svcFrame, usersTable, emailsTable, fraudAnalyses, uuidCount, runs,
                   faults, snapshot, analysisFailed>>

\* ProcessUnprocessedEmails, lines 101-109: GetUnprocessedEmails(ctx, 100)
ProcessStart ==
    /\ svc.pc = "idle"
    /\ runs < MaxRuns
    /\ runs' = runs + 1
    /\ \E t \in 1..Len(Tenants), failed \in MayFail :
          IF failed
          THEN /\ faults' = faults + 1
               /\ svc' = [IdleService EXCEPT !.pc = "processError", !.tenant = t, !.err = TRUE]
          ELSE /\ svc' = [IdleService EXCEPT !.pc = "analyze", !.tenant = t, !.k = 1,
                              !.batch = GetUnprocessedEmails(emailsTable, BatchLimit)]
               /\ UNCHANGED faults
    /\ UNCHANGED <<svcFrame, usersTable, emailsTable, fraudAnalyses, uuidCount, snapshot,
                   analysisFailed>>

\* lines 111-127, one iteration up to CreateFraudAnalysis.  GetUserByEmail
\* returns the zero User with its error; CreateFraudAnalysis failing leaves
\* fraud_analyses alone and skips MarkEmailProcessed.
ProcessAnalyze ==
    /\ svc.pc = "analyze"
    /\ svc.k <= Len(svc.batch)
    /\ LET e == svc.batch[svc.k]
       IN  \E lookupFailed \in MayFail :
              LET rcpt == IF lookupFailed
                          THEN <<ProviderUser(0, 0, "", "", "", "")>>
                          ELSE GetUserByEmail(usersTable, e.TenantID, e.RecipientEmail)
                  a == AnalyzeEmail(strategies, ctx, e, rcpt)
              IN  \E storeFailed \in (IF lookupFailed /\ faults + 1 >= MaxFaults
                                        THEN {FALSE} ELSE MayFail) :
                     /\ faults' = faults + (IF lookupFailed THEN 1 ELSE 0)
                                          + (IF storeFailed THEN 1 ELSE 0)
                     /\ fraudAnalyses' = IF storeFailed THEN fraudAnalyses
                                         ELSE CreateFraudAnalysis(fraudAnalyses, a)
                     /\ analysisFailed' = IF storeFailed THEN analysisFailed \cup {e.ID}
                                          ELSE analysisFailed \ {e.ID}
                     /\ svc' = [svc EXCEPT
                                  !.pc = AfterCreateFraudAnalysis(storeFailed),
                                  !.analysis = <<a>>,
                                  !.failed = IF lookupFailed \/ storeFailed
                                             THEN @ \cup {svc.k} ELSE @,
                                  !.log = Append(@, [ID |-> e.ID, recipient |-> rcpt,
                                                     lookupErr |-> lookupFailed,
                                                     storeErr |-> storeFailed,
                                                     analysis |-> a]),
                                  !.k = IF AfterCreateFraudAnalysis(storeFailed) = "analyze"
                                        THEN NextEmailAfterError(@, Len(svc.batch))
                                        ELSE @]
    /\ UNCHANGED <<svcFrame, usersTable, emailsTable, uuidCount, runs, snapshot>>

\* lines 129-152: MarkEmailProcessed, its error logged only; then the next email
ProcessMark ==
    /\ svc.pc = "mark"
    /\ \E failed \in MayFail :
          IF failed
          THEN /\ faults' = faults + 1
               /\ svc' = [svc EXCEPT !.pc = "analyze", !.k = @ + 1, !.failed = @ \cup {svc.k}]
               /\ UNCHANGED emailsTable
          ELSE /\ emailsTable' = MarkEmailProcessed(emailsTable, svc.batch[svc.k].ID)
               /\ svc' = [svc EXCEPT !.pc = "analyze", !.k = @ + 1]
               /\ UNCHANGED faults
    /\ UNCHANGED <<svcFrame, usersTable, fraudAnalyses, uuidCount, runs, snapshot,
                   analysisFailed>>

\* line 154: return nil
ProcessDone ==
    /\ svc.pc = "analyze"
    /\ svc.k > Len(svc.batch)
    /\ svc' = [svc EXCEPT !.pc = "processed"]
    /\ UNCHANGED <<svcFrame, usersTable, emailsTable, fraudAnalyses, uuidCount, runs,
                   faults, snapshot, analysisFailed>>

\* the call has returned, nil or an error; the caller makes its next call
ServiceReturn ==
    /\ svc.pc \in {"ingested", "processed", "ingestError", "processError"}
    /\ svc' = IdleService
    /\ UNCHANGED <<svcFrame, usersTable, emailsTable, fraudAnalyses, uuidCount, runs,
                   faults, snapshot, analysisFailed>>

NextService ==
    \/ IngestStart
    \/ IngestUnsupportedProvider
    \/ IngestStoreUser
    \/ IngestUsersStored
    \/ IngestFetchEmails
    \/ IngestStoreEmail
    \/ IngestEmailsStored
    \/ IngestDone
    \/ ProcessStart
    \/ ProcessAnalyze
    \/ ProcessMark
    \/ ProcessDone
    \/ ServiceReturn

SpecService == InitService /\ [][NextService]_vars

-----------------------------------------------------------------------------
(* ProcessUnprocessedEmails on a store that holds a backlog: the Microsoft  *)
(* tenant's users and up to MaxBacklog unprocessed emails of theirs, each   *)
(* with its own provider message id and received_at.  No call fails.        *)

MaxBacklog == 101

Backlogs == {n \in {0, 1, 2, BatchLimit, MaxBacklog} : n <= MaxBacklog}

\* the i-th email of the backlog, ingested for the tenant's first user
BacklogEmail(i) ==
    [GetEmails("microsoft", Len(Tenants) + 1, 0)[1] EXCEPT
        !.ID = Len(Tenants) + 2 + i,
        !.TenantID = Tenants[1].ID,
        !.ProviderMessageID = "msg-" \o ToString(i),
        !.ReceivedAt = i]

InitBacklog ==
    /\ ctx = MainContext
    /\ strategies = NewDetectorStrategies
    /\ email = <<>>
    /\ recipient = NoUser
    /\ pc = "backlog"
    /\ idx = 0
    /\ detections = <<>>
    /\ analysis = <<>>
    /\ fusedMulAdd = FALSE
    /\ calls = [c \in Callers |-> IdleFrame]
    /\ slices = [c \in Callers |-> <<>>]
    /\ args = <<>>
    /\ result = <<>>
    /\ usersTable = GetUsers("microsoft", Tenants[1].ID, Len(Tenants))
    /\ \E n \in Backlogs :
          /\ emailsTable = [i \in 1..n |-> BacklogEmail(i)]
          /\ uuidCount = Len(Tenants) + 2 + n
    /\ fraudAnalyses = <<>>
    /\ svc = IdleService
    /\ runs = 0
    /\ faults = MaxFaults
    /\ snapshot = [users |-> <<>>, emails |-> <<>>]
    /\ analysisFailed = {}

NextBacklog ==
    \/ ProcessStart
    \/ ProcessAnalyze
    \/ ProcessMark
    \/ ProcessDone
    \/ ServiceReturn

SpecBacklog == InitBacklog /\ [][NextBacklog]_vars

-----------------------------------------------------------------------------
(* TyposquattingStrategy.Detect on sender addresses and trusted lists that  *)
(* hold near misses of each other: a first match that is not the closest,   *)
(* lengths at which a distance gives similarity exactly 85, and a trusted   *)
(* list that holds two domains one edit apart.  result holds the trusted    *)
(* domain named in the Evidence.                                            *)

TypoTrustedLists ==
    { <<"microsoft.com", "paypal.com">>,
      <<>>,
      <<"microsoft-supports.com", "microsoft-support.com", "secure-paypal-eu.com">>,
      <<"paypal.co", "paypal.com", "microsoft.com">> }

TypoSenders ==
    {"user@microsoft.com", "user@micros0ft.com", "user@paypa1.com", "billing@paypal.co",
     "user@paypal.com", "user@PAYPAL.COM", "user@example.com", "no-at-sign",
     "it@micros0ft-support.com", "it@microsoft-support.com", "it@microsoft-supp0rts.com",
     "pay@secure-paypal-eu.net", "pay@secure-paypal-eu.cam", "pay@secure-paypa1-eu.con"}

InitTypo ==
    /\ \E t \in TypoTrustedLists : ctx = Context(<<"company.com">>, t)
    /\ strategies = NewDetectorStrategies
    /\ \E s \in TypoSenders : email = <<Email(s, "", EmptyText, NoHeaders, NoAttachments)>>
    /\ recipient = NoUser
    /\ pc = "typo"
    /\ idx = 0
    /\ detections = <<>>
    /\ analysis = <<>>
    /\ OtherInit

\* NewTyposquattingStrategy().Detect(email, nil, context)
TypoCall ==
    /\ pc = "typo"
    /\ idx' = 2
    /\ detections' = Detect(strategies[2], email[1], recipient, ctx)
    /\ result' = TyposquattingMatch(extractDomain(email[1].SenderEmail), ctx.TrustedDomains)
    /\ pc' = "typoCalled"
    /\ UNCHANGED <<ctx, strategies, email, recipient, analysis>>
    /\ UNCHANGED <<fusedMulAdd, calls, slices, args, svcVars>>

NextTypo == TypoCall

SpecTypo == InitTypo /\ [][NextTypo]_vars

-----------------------------------------------------------------------------
(* extractDomain called on its own, on every address of up to MaxAddrLen    *)
(* characters over letters of both cases, '@' and '.', and on the malformed *)
(* addresses the strategies' tests use.                                     *)

MaxAddrLen == 3
AddrAlphabet == {"a", "B", "@", "."}

RECURSIVE AddrsOfLen(_)
AddrsOfLen(n) ==
    IF n = 0 THEN {""}
    ELSE {s \o c : s \in AddrsOfLen(n - 1), c \in AddrAlphabet}

Addrs ==
    UNION {AddrsOfLen(n) : n \in 0..MaxAddrLen}
        \cup {"user@Company.COM", "no-at-sign", "@b.com", "a@", "a@b@company.com"}

InitDomain ==
    /\ ctx = Context(<<>>, <<>>)
    /\ strategies = NewDetectorStrategies
    /\ email = <<>>
    /\ recipient = NoUser
    /\ pc = "domain"
    /\ idx = 0
    /\ detections = <<>>
    /\ analysis = <<>>
    /\ fusedMulAdd = FALSE
    /\ calls = [c \in Callers |-> IdleFrame]
    /\ slices = [c \in Callers |-> <<>>]
    /\ \E addr \in Addrs : args = <<addr>>
    /\ result = <<>>
    /\ NoService

\* extractDomain(email)
DomainCall ==
    /\ pc = "domain"
    /\ result = <<>>
    /\ result' = <<extractDomain(args[1])>>
    /\ UNCHANGED <<detVars, fusedMulAdd, calls, slices, args, svcVars>>

NextDomain == DomainCall

SpecDomain == InitDomain /\ [][NextDomain]_vars

-----------------------------------------------------------------------------
(* The claims *)

Range(seq) == {seq[i] : i \in 1..Len(seq)}
SetMax(S) == CHOOSE m \in S : \A x \in S : x <= m

Sender == email[1].SenderEmail
SenderDomainInternal == extractDomain(Sender) \in Range(ctx.InternalDomains)
UnitOf(i) == pc = "called" /\ idx = i

\* C1: every verdict AnalyzeEmail returns has a score between 0.0 and 1.0 and
\* its level is the threshold function of that score: >= 0.85 critical,
\* >= 0.70 high, >= 0.50 medium, >= 0.30 low, otherwise none.
C1_ScoreRangeAndLevel ==
    pc = "done" =>
        LET score == analysis[1].RiskScore
            level == analysis[1].RiskLevel
        IN  /\ score >= 0 /\ score <= 10000
            /\ (level = "critical") = (score >= 8500)
            /\ (level = "high") = (score >= 7000 /\ score < 8500)
            /\ (level = "medium") = (score >= 5000 /\ score < 7000)
            /\ (level = "low") = (score >= 3000 /\ score < 5000)
            /\ (level = "none") = (score < 3000)

\* C1 witness: a verdict for a known recipient whose largest weighted value
\* exceeds 1.0 and is returned as exactly 1.0, level critical
C1_Witness ==
    /\ pc = "done"
    /\ recipient # NoUser
    /\ \E d \in Range(detections) : d.Confidence * typeWeight(d.Type) > 10000
    /\ analysis[1].RiskScore = 10000
    /\ analysis[1].RiskLevel = "critical"

\* C2: when all seven strategies abstain (the signal list is empty) the
\* verdict's score is exactly 0.0 and its level is "none".
C2_NoSignalsZeroScore ==
    (pc = "done" /\ analysis[1].DetectedThreats = <<>>) =>
        (analysis[1].RiskScore = 0 /\ analysis[1].RiskLevel = "none")

\* C2 witness: a finished call in which all seven strategies ran and none signalled
C2_Witness ==
    /\ pc = "done"
    /\ idx = Len(strategies) + 1
    /\ analysis[1].DetectedThreats = <<>>

\* C3: for a non-empty list of signals calculateRiskScore returns
\* min(1.0, max over the signals of confidence * typeWeight(type)), a type
\* absent from the table weighing 1.0; being a maximum over the signals it
\* depends neither on their number nor on their order.
C3_WeightedMaximum ==
    (pc = "score" /\ analysis # <<>> /\ detections # <<>>) =>
        LET weightOf(t) == IF t \in DOMAIN weights THEN weights[t] ELSE 10
            weighted == {d.Confidence * weightOf(d.Type) : d \in Range(detections)}
        IN  analysis[1].RiskScore = Min2(10000, SetMax(weighted))

\* C3 witness: a scored list of three signals, of which one of a type absent
\* from the table gives the maximum, below the cap
C3_Witness ==
    /\ pc = "score"
    /\ analysis # <<>>
    /\ Len(detections) = 3
    /\ detections[2].Type \notin DOMAIN weights
    /\ analysis[1].RiskScore = detections[2].Confidence * 10
    /\ analysis[1].RiskScore < 10000
    /\ detections[1].Confidence * typeWeight(detections[1].Type) \in 1..(analysis[1].RiskScore - 1)
    /\ detections[3].Confidence * typeWeight(detections[3].Type) \in 1..(analysis[1].RiskScore - 1)

\* C4 (as claimed): for a sender address that does not contain exactly one '@'
\* the Display-Name, Typosquatting and BEC strategies all abstain.
C4_MalformedSenderAbstains ==
    (pc = "called" /\ idx \in {1, 2, 7} /\ Count(Sender, "@") # 1) => detections = <<>>

\* C5 (as claimed): a sender whose domain equals one of the trusted domains
\* never receives a DOMAIN_TYPOSQUATTING signal, whatever else the list holds.
C5_TrustedSenderNeverTyposquat ==
    (UnitOf(2) /\ extractDomain(Sender) \in Range(ctx.TrustedDomains)) => detections = <<>>

\* C6: DisplayNameStrategy.Detect emits DISPLAY_NAME_MISMATCH with confidence
\* 0.85 exactly when the lower-cased display name contains one of the titles
\* ceo, cfo, president, director, chief, vp, vice president and the sender's
\* domain is not an internal domain; otherwise it abstains.
C6_DisplayNameIff ==
    UnitOf(1) =>
        LET titles == {"ceo", "cfo", "president", "director", "chief", "vp", "vice president"}
            hasTitle == \E t \in titles : Contains(ToLower(email[1].SenderName), t)
        IN  detections =
                IF hasTitle /\ ~SenderDomainInternal
                THEN <<[Type |-> "DISPLAY_NAME_MISMATCH", Confidence |-> 850]>>
                ELSE <<>>

\* C6 witness: a capitalised title in the display name of an external sender, flagged
C6_Witness ==
    /\ UnitOf(1)
    /\ email[1].SenderName = "John Smith CEO"
    /\ Sender = "attacker@evil.com"
    /\ ctx.InternalDomains # <<>>
    /\ detections # <<>>

\* C7: AuthFailuresStrategy.Detect emits AUTH_FAILURES with confidence 0.80
\* exactly when at least two of SPF (Received-SPF contains "fail"), DKIM and
\* DMARC (Authentication-Results contains "dkim=fail" / "dmarc=fail"), compared
\* case-insensitively, failed; with fewer failures or missing headers it abstains.
C7_AuthFailuresIff ==
    UnitOf(3) =>
        LET h == email[1].Headers
            has(k, needle) == k \in DOMAIN h /\ Contains(ToLower(h[k]), needle)
            failed == {c \in {"spf", "dkim", "dmarc"} :
                          \/ c = "spf" /\ has("Received-SPF", "fail")
                          \/ c = "dkim" /\ has("Authentication-Results", "dkim=fail")
                          \/ c = "dmarc" /\ has("Authentication-Results", "dmarc=fail")}
        IN  detections =
                IF Cardinality(failed) >= 2
                THEN <<[Type |-> "AUTH_FAILURES", Confidence |-> 800]>>
                ELSE <<>>

\* C7 witness: exactly two failures, in mixed case, flagged
C7_Witness ==
    /\ UnitOf(3)
    /\ DOMAIN email[1].Headers = {"Received-SPF", "Authentication-Results"}
    /\ email[1].Headers["Received-SPF"] = "Fail (domain does not designate sender)"
    /\ email[1].Headers["Authentication-Results"] = "dkim=pass; dmarc=fail"
    /\ detections # <<>>

RoleIn(roles) == \E k \in Range(roles) : Contains(ToLower(recipient[1].Role), k)
TextHas(keywords) == \E k \in Range(keywords) : Contains(EmailText(email[1]), k)
HighValueRole == RoleIn(cSuiteRoles) \/ RoleIn(financeRoles) \/ RoleIn(hrRoles)

\* C8: for a known recipient with a high-value role and an external sender,
\* BECRoleStrategy.Detect returns exactly the first matching rule, top to
\* bottom: C-suite + urgency + wire transfer -> BEC_CSUITE_TARGETING 0.90;
\* finance + wire transfer -> BEC_FINANCE_TARGETING 0.85; HR + payroll document
\* -> BEC_HR_PAYROLL_SCAM 0.80; any high-value role + urgency ->
\* BEC_HIGH_VALUE_TARGET 0.70; otherwise nothing; never more than one signal.
C8_BECCascade ==
    (UnitOf(7) /\ recipient # NoUser /\ recipient[1].Role # "" /\ HighValueRole
        /\ ~SenderDomainInternal) =>
        LET r1 == RoleIn(cSuiteRoles) /\ TextHas(BECUrgencyKeywords) /\ TextHas(wireTransferKeywords)
            r2 == RoleIn(financeRoles) /\ TextHas(wireTransferKeywords)
            r3 == RoleIn(hrRoles) /\ TextHas(payrollDocKeywords)
            r4 == TextHas(BECUrgencyKeywords)
        IN  /\ Len(detections) <= 1
            /\ r1 => detections = <<[Type |-> "BEC_CSUITE_TARGETING", Confidence |-> 900]>>
            /\ (~r1 /\ r2) => detections = <<[Type |-> "BEC_FINANCE_TARGETING", Confidence |-> 850]>>
            /\ (~r1 /\ ~r2 /\ r3) =>
                   detections = <<[Type |-> "BEC_HR_PAYROLL_SCAM", Confidence |-> 800]>>
            /\ (~r1 /\ ~r2 /\ ~r3 /\ r4) =>
                   detections = <<[Type |-> "BEC_HIGH_VALUE_TARGET", Confidence |-> 700]>>
            /\ (~r1 /\ ~r2 /\ ~r3 /\ ~r4) => detections = <<>>

\* C8 witness: a role that is both C-suite and finance, with urgent wire-transfer
\* text (rules 1, 2 and 4 all match), reported as the C-suite signal only
C8_Witness ==
    /\ UnitOf(7)
    /\ recipient # NoUser
    /\ recipient[1].Role = "VP Finance"
    /\ RoleIn(cSuiteRoles) /\ RoleIn(financeRoles)
    /\ TextHas(BECUrgencyKeywords) /\ TextHas(wireTransferKeywords)
    /\ ~SenderDomainInternal
    /\ detections = <<[Type |-> "BEC_CSUITE_TARGETING", Confidence |-> 900]>>

\* C9: BECRoleStrategy.Detect abstains, whatever the subject and body, when
\* the recipient is absent, or its role label is empty, or the sender's domain
\* is an internal domain, or the role matches no C-suite, finance or HR category.
C9_BECAbstains ==
    (UnitOf(7) /\ (\/ recipient = NoUser
                   \/ recipient[1].Role = ""
                   \/ SenderDomainInternal
                   \/ ~HighValueRole)) =>
        detections = <<>>

\* C9 witness: urgent wire-transfer text to a CEO from an internal sender
\* (address in capitals), no signal
C9_Witness ==
    /\ UnitOf(7)
    /\ recipient # NoUser
    /\ recipient[1].Role = "CEO"
    /\ Sender = "Boss@Company.COM"
    /\ SenderDomainInternal
    /\ TextHas(BECUrgencyKeywords) /\ TextHas(wireTransferKeywords)
    /\ detections = <<>>

\* C10 (as claimed): UrgencyFinancialStrategy.Detect emits its signal only for
\* a text with at least one urgency keyword and at least one financial keyword.
C10_NeedsUrgencyAndFinancial ==
    (UnitOf(4) /\ detections # <<>>) =>
        /\ \E k \in Range(UFUrgencyKeywords) : Contains(EmailText(email[1]), k)
        /\ \E k \in Range(UFFinancialKeywords) : Contains(EmailText(email[1]), k)

-----------------------------------------------------------------------------
\* what the strategies order[1..n] return on one triple, abstentions dropped
RECURSIVE SignalsOf(_, _, _, _, _)
SignalsOf(order, e, rcpt, context, n) ==
    IF n = 0 THEN <<>>
    ELSE SignalsOf(order, e, rcpt, context, n - 1) \o Detect(order[n], e, rcpt, context)

ConstructionOrder ==
    <<"DisplayName", "Typosquatting", "AuthFailures", "UrgencyFinancial",
      "ReplyTo", "Attachment", "BECRole">>

\* C11: AnalyzeEmail calls each of the seven strategies once, in construction
\* order (display name, typosquatting, auth failures, urgency/financial,
\* reply-to, attachment, BEC role), on the same (message, recipient, context),
\* also after earlier strategies signalled; the signal list is exactly the
\* non-abstaining results in that order, at most one per strategy.
C11_EveryStrategyOnceInOrder ==
    pc \in {"loop", "done"} =>
        /\ strategies = ConstructionOrder
        /\ idx \in 1..8
        /\ Len(detections) <= idx - 1
        /\ pc = "done" =>
              /\ idx = 8
              /\ analysis[1].DetectedThreats =
                     SignalsOf(ConstructionOrder, email[1], recipient, ctx, 7)
              /\ Len(analysis[1].DetectedThreats) <= 7

\* C11 witness: a finished call in which the first strategy signalled and
\* five later ones, the last one included, still ran and signalled
C11_Witness ==
    /\ pc = "done"
    /\ Len(analysis[1].DetectedThreats) = 6
    /\ analysis[1].DetectedThreats[1].Type = "DISPLAY_NAME_MISMATCH"
    /\ analysis[1].DetectedThreats[6].Type = "BEC_CSUITE_TARGETING"
    /\ analysis[1].DetectedThreats = SignalsOf(ConstructionOrder, email[1], recipient, ctx, 7)

\* the verdict AnalyzeEmail returns for a triple when nothing else runs
VerdictAlone(e, rcpt, context) ==
    FraudAnalysis(SignalsOf(ConstructionOrder, e, rcpt, context, 7))

\* every finished concurrent call holds the verdict of the call run alone,
\* and finished calls on equal (message, recipient) hold equal verdicts
ConcVerdictsRight ==
    /\ \A c \in Callers :
          calls[c].pc = "done" =>
              calls[c].analysis = VerdictAlone(calls[c].email[1], calls[c].recipient, ctx)
    /\ \A c, d \in Callers :
          (/\ calls[c].pc = "done" /\ calls[d].pc = "done"
           /\ calls[c].email = calls[d].email /\ calls[c].recipient = calls[d].recipient)
              => calls[c].analysis = calls[d].analysis

\* C12: a Detector holds no mutable state after construction: no step of
\* AnalyzeEmail changes the strategy list or the context, and with several
\* callers interleaving on one Detector every call returns the verdict it
\* returns when run alone; equal (message, recipient) give equal verdicts.
C12_SharedDetectorIsStateless ==
    /\ []ConcVerdictsRight
    /\ [][ctx' = ctx /\ strategies' = strategies]_vars

\* C12 witness: two calls on different messages both inside the loop, at
\* different strategies, one with three signals collected and the other,
\* on a harmless message, with none
C12_Witness ==
    /\ calls[1].pc = "loop" /\ calls[2].pc = "loop"
    /\ calls[1].idx = 6 /\ calls[2].idx = 3
    /\ calls[1].email # calls[2].email
    /\ calls[1].recipient # calls[2].recipient
    /\ Len(slices[calls[1].slice]) = 3
    /\ Len(slices[calls[2].slice]) = 0

\* C13: levenshteinDistance(a, b) = levenshteinDistance(b, a); the distance
\* of a string to itself is 0; the distance of "" to s is len(s); and the
\* distance is 0 only for identical strings.
C13_LevenshteinSymmetryIdentity ==
    (pc = "lev" /\ result # <<>>) =>
        LET a == args[1]
            b == args[2]
        IN  /\ result[1] = levenshteinDistance(b, a)
            /\ a = b => result[1] = 0
            /\ a = "" => result[1] = Len(b)
            /\ result[1] = 0 => a = b

\* C13 witness: two different strings of different lengths, neither empty,
\* with a distance that needs a deletion and a substitution
C13_Witness ==
    /\ pc = "lev"
    /\ args = <<"abc", "cb">>
    /\ result = <<2>>

\* the signal types of the returned verdict
VerdictTypes == {analysis[1].DetectedThreats[i].Type : i \in 1..Len(analysis[1].DetectedThreats)}

\* the display name carries an executive title and the sender is external
TitleFromOutside ==
    /\ \E t \in Range(execTitles) : Contains(ToLower(email[1].SenderName), t)
    /\ ~SenderDomainInternal

\* the subject and body score above 1.5 on the urgency/financial keywords
UrgentFinancialText ==
    LET text == ToLower(email[1].Subject \o " " \o email[1].BodyPreview)
        n(keywords) == Cardinality({i \in 1..Len(keywords) : Contains(text, keywords[i])})
    IN  3 * n(UFUrgencyKeywords) + 5 * n(UFFinancialKeywords) + 2 * n(UFAuthorityKeywords) > 15

\* Reply-To names another address, on a freemail domain that is not the sender's
ReplyToRedirected ==
    /\ "Reply-To" \in DOMAIN email[1].Headers
    /\ LET replyTo == ToLower(email[1].Headers["Reply-To"])
       IN  /\ replyTo # ""
           /\ replyTo # ToLower(Sender)
           /\ extractDomain(replyTo) \in Range(freeEmailDomains)
           /\ extractDomain(replyTo) # extractDomain(ToLower(Sender))

\* C14: for a message with an executive-title display name from an external
\* domain, urgent wire-transfer text and a Reply-To redirected to a freemail
\* domain, the verdict holds DISPLAY_NAME_MISMATCH, URGENCY_FINANCIAL_LANGUAGE
\* and REPLY_TO_MISMATCH and its level is high or critical, with or without
\* a recipient.
C14_ThreeSignalsHighOrCritical ==
    (pc = "done" /\ TitleFromOutside /\ UrgentFinancialText /\ ReplyToRedirected) =>
        /\ {"DISPLAY_NAME_MISMATCH", "URGENCY_FINANCIAL_LANGUAGE", "REPLY_TO_MISMATCH"}
               \subseteq VerdictTypes
        /\ analysis[1].RiskLevel \in {"high", "critical"}

\* C14 witness: such a message analysed without a recipient
C14_Witness ==
    /\ pc = "done"
    /\ recipient = NoUser
    /\ TitleFromOutside /\ UrgentFinancialText /\ ReplyToRedirected
    /\ Len(analysis[1].DetectedThreats) >= 3
    /\ analysis[1].RiskLevel = "critical"

\* the ids of the rows of a table or a batch
IDsOf(rows) == {rows[i].ID : i \in 1..Len(rows)}

\* the email ids that have a row in fraud_analyses
AnalysedIDs == {fraudAnalyses[i].EmailID : i \in 1..Len(fraudAnalyses)}

\* C15: an email is marked processed only after a fraud analysis for it was
\* stored: every processed email has a row in fraud_analyses; an email whose
\* latest CreateFraudAnalysis failed is still stored and unprocessed; and the
\* batch a later ProcessUnprocessedEmails reads from GetUnprocessedEmails
\* holds every such email again.
C15_ProcessedOnlyAfterAnalysisStored ==
    /\ \A i \in 1..Len(emailsTable) :
          emailsTable[i].Processed => emailsTable[i].ID \in AnalysedIDs
    /\ \A id \in analysisFailed :
          \E i \in 1..Len(emailsTable) :
             emailsTable[i].ID = id /\ ~emailsTable[i].Processed
    /\ (svc.pc = "analyze" /\ svc.k = 1) => analysisFailed \subseteq IDsOf(svc.batch)

\* C15 witness: CreateFraudAnalysis failed for an email in an earlier call,
\* the email is unprocessed with no analysis, and the next call has just read
\* it again.
C15_Witness ==
    /\ svc.pc = "analyze" /\ svc.k = 1
    /\ runs = MaxRuns
    /\ analysisFailed # {}
    /\ analysisFailed \subseteq IDsOf(svc.batch)
    /\ analysisFailed \cap AnalysedIDs = {}

\* the keys (tenant, provider user id) and (tenant, provider message id) the
\* provider of tenant t returns on every call
ProviderUserKeys(t) ==
    LET users == GetUsers(Tenants[t].Provider, Tenants[t].ID, 0)
    IN  {<<Tenants[t].ID, users[i].ProviderUserID>> : i \in 1..Len(users)}

ProviderMessageKeys(t) ==
    LET emails == GetEmails(Tenants[t].Provider, 0, 0)
    IN  {<<Tenants[t].ID, emails[j].ProviderMessageID>> : j \in 1..Len(emails)}

UserKeys(tbl) == {<<tbl[i].TenantID, tbl[i].ProviderUserID>> : i \in 1..Len(tbl)}

EmailKeys(tbl) == {<<tbl[i].TenantID, tbl[i].ProviderMessageID>> : i \in 1..Len(tbl)}

\* the store at the start of the running IngestEmailsForTenant already held
\* every user and message of the tenant's provider: an earlier run stored them
IngestedBefore ==
    /\ ProviderUserKeys(svc.tenant) \subseteq UserKeys(snapshot.users)
    /\ ProviderMessageKeys(svc.tenant) \subseteq EmailKeys(snapshot.emails)

Ingesting ==
    svc.pc \in {"storeUsers", "fetchEmails", "storeEmails", "ingested"}

\* C16: ingestion is idempotent.  No two stored users share (tenant, provider
\* user id) and no two stored emails share (tenant, provider message id);
\* IngestEmailsForTenant never changes an email row that was stored when it
\* started; and a run for a tenant whose users and messages were all stored
\* before leaves both tables as they were when it started.
C16_IngestionIdempotent ==
    /\ Cardinality(UserKeys(usersTable)) = Len(usersTable)
    /\ Cardinality(EmailKeys(emailsTable)) = Len(emailsTable)
    /\ Ingesting =>
          /\ Len(snapshot.emails) <= Len(emailsTable)
          /\ \A i \in 1..Len(snapshot.emails) : emailsTable[i] = snapshot.emails[i]
    /\ (Ingesting /\ IngestedBefore) =>
          /\ usersTable = snapshot.users
          /\ emailsTable = snapshot.emails

\* C16 witness: a second IngestEmailsForTenant for the Microsoft tenant has
\* returned; CreateUser and CreateEmail were called for the two users and
\* their messages again, without an error, and the tables are as before.
C16_Witness ==
    /\ svc.pc = "ingested"
    /\ svc.tenant = 1
    /\ IngestedBefore
    /\ svc.emailCount = 2
    /\ faults = 0
    /\ Len(usersTable) = 2 /\ Len(emailsTable) = 1
    /\ usersTable = snapshot.users /\ emailsTable = snapshot.emails

\* the stored emails that are not marked processed
Unprocessed(tbl) == {i \in 1..Len(tbl) : ~tbl[i].Processed}

\* C17: when a ProcessUnprocessedEmails call during which no storage
\* operation failed has returned, no stored email is left unprocessed,
\* whatever the number of unprocessed emails was at the start of the call.
C17_AllUnprocessedProcessed ==
    svc.pc = "processed" => Unprocessed(emailsTable) = {}

\* C17, up to the batch size: the same for a call that starts with at most
\* BatchLimit unprocessed emails.
C17_BatchProcessed ==
    (svc.pc = "processed" /\ Len(emailsTable) <= BatchLimit)
        => Unprocessed(emailsTable) = {}

\* C17 witness: the first call on a backlog of more than BatchLimit emails
\* has returned and left an email unprocessed.
C17_Witness ==
    /\ svc.pc = "processed"
    /\ runs = 1
    /\ Len(svc.batch) = BatchLimit
    /\ Cardinality(Unprocessed(emailsTable)) = Len(emailsTable) - BatchLimit
    /\ Unprocessed(emailsTable) # {}

\* 0 < 20 * distance < 3 * max length, for a trusted domain other than the
\* sender's
NearMiss(senderDomain, t) ==
    LET distance == levenshteinDistance(senderDomain, t)
        maxLen   == Max2(Len(senderDomain), Len(t))
    IN  t # senderDomain /\ 0 < 20 * distance /\ 20 * distance < 3 * maxLen

\* C18: TyposquattingStrategy.Detect returns DOMAIN_TYPOSQUATTING with
\* confidence 0.90 exactly when some trusted domain other than the sender's
\* has 0 < 20 * distance < 3 * max length (similarity above 85 and below
\* 100); the Evidence names the first such domain of the list, whatever the
\* distances of the later ones; otherwise it returns no signal.
C18_TyposquattingFirstNearMiss ==
    pc = "typoCalled" =>
        LET d == extractDomain(email[1].SenderEmail)
            T == ctx.TrustedDomains
            hits == {i \in 1..Len(T) : NearMiss(d, T[i])}
        IN  IF hits = {}
            THEN detections = <<>> /\ result = <<>>
            ELSE /\ detections = <<[Type |-> "DOMAIN_TYPOSQUATTING", Confidence |-> 900]>>
                 /\ result = <<T[CHOOSE i \in hits : \A k \in hits : i <= k]>>

\* C18 witness: the sender's domain is within the threshold of the first
\* trusted domain at distance 2 and the second trusted domain is at distance
\* 1; the signal names the first.
C18_Witness ==
    /\ pc = "typoCalled"
    /\ Len(ctx.TrustedDomains) >= 2
    /\ levenshteinDistance(extractDomain(email[1].SenderEmail), ctx.TrustedDomains[1]) = 2
    /\ levenshteinDistance(extractDomain(email[1].SenderEmail), ctx.TrustedDomains[2]) = 1
    /\ result = <<ctx.TrustedDomains[1]>>
    /\ detections = <<[Type |-> "DOMAIN_TYPOSQUATTING", Confidence |-> 900]>>

\* the rule an attachment name triggers, 0 for none: 1 a high-risk extension,
\* 2 more than one '.', 3 a macro-capable extension with urgency language in
\* the subject and body
AttachmentRule(e, name) ==
    LET filename == ToLower(name)
    IN  IF \E i \in 1..Len(highRiskExtensions) : HasSuffix(filename, highRiskExtensions[i])
        THEN 1
        ELSE IF Count(filename, ".") > 1 THEN 2
        ELSE IF /\ \E i \in 1..Len(mediumRiskExtensions) :
                      HasSuffix(filename, mediumRiskExtensions[i])
                /\ hasUrgencyLanguage(e)
        THEN 3
        ELSE 0

AttachmentRuleSignal(rule) ==
    IF rule = 1 THEN <<[Type |-> "HIGH_RISK_ATTACHMENT", Confidence |-> 900]>>
    ELSE IF rule = 2 THEN <<[Type |-> "SUSPICIOUS_ATTACHMENT_NAME", Confidence |-> 850]>>
    ELSE <<[Type |-> "MEDIUM_RISK_ATTACHMENT_WITH_URGENCY", Confidence |-> 700]>>

\* C19: AttachmentStrategy.Detect returns no signal when HasAttachments is
\* false, whatever the names; otherwise the signal is that of the first name,
\* in list order, that triggers a rule, with rule 1 before rule 2 before rule
\* 3 for that name, and no signal when no name triggers one.
C19_FirstTriggeringAttachment ==
    (pc = "called" /\ idx = 6) =>
        LET e == email[1]
            names == e.AttachmentNames
            hits == {i \in 1..Len(names) : AttachmentRule(e, names[i]) # 0}
        IN  IF ~e.HasAttachments \/ hits = {}
            THEN detections = <<>>
            ELSE detections =
                    AttachmentRuleSignal(
                        AttachmentRule(e, names[CHOOSE i \in hits : \A k \in hits : i <= k]))

\* C19 witness: the first attachment is a .doc in an urgent message and the
\* second has a high-risk extension; the signal is the first one's.
C19_Witness ==
    /\ pc = "called" /\ idx = 6
    /\ email[1].HasAttachments
    /\ Len(email[1].AttachmentNames) = 2
    /\ AttachmentRule(email[1], email[1].AttachmentNames[1]) = 3
    /\ AttachmentRule(email[1], email[1].AttachmentNames[2]) = 1
    /\ detections = <<[Type |-> "MEDIUM_RISK_ATTACHMENT_WITH_URGENCY", Confidence |-> 700]>>

\* the keyword counts of the message the strategy was called on
UFCounts ==
    LET text == EmailText(email[1])
    IN  [u |-> Cardinality({k \in Range(UFUrgencyKeywords) : Contains(text, k)}),
         f |-> Cardinality({k \in Range(UFFinancialKeywords) : Contains(text, k)}),
         a |-> Cardinality({k \in Range(UFAuthorityKeywords) : Contains(text, k)})]

\* min(0.70 + (score - 1.5) * 0.1, 0.95) in thousandths, score in tenths
UFClaimedConfidence(u, f, a) ==
    IF 700 + (3 * u + 5 * f + 2 * a - 15) * 10 < 950
    THEN 700 + (3 * u + 5 * f + 2 * a - 15) * 10
    ELSE 950

\* C20 (as claimed): UrgencyFinancialStrategy.Detect emits its signal if and
\* only if 3u + 5f + 2a > 15 for the counts u, f, a of distinct keywords
\* present, so a score of exactly 1.5 abstains; the confidence is
\* min(0.70 + (score - 1.5) * 0.1, 0.95), above 0.70, at most 0.95, and
\* non-decreasing in each count.
C20_EmitsIffScoreAboveThreshold ==
    UnitOf(4) =>
        LET c == UFCounts
        IN  /\ detections # <<>> <=> 3 * c.u + 5 * c.f + 2 * c.a > 15
            /\ detections # <<>> =>
                  /\ detections[1].Type = "URGENCY_FINANCIAL_LANGUAGE"
                  /\ detections[1].Confidence = UFClaimedConfidence(c.u, c.f, c.a)
                  /\ detections[1].Confidence > 700
                  /\ detections[1].Confidence <= 950
            /\ \A u \in 0..Len(UFUrgencyKeywords), f \in 0..Len(UFFinancialKeywords),
                  a \in 0..Len(UFAuthorityKeywords) :
                  /\ u > 0 => UFClaimedConfidence(u - 1, f, a) <= UFClaimedConfidence(u, f, a)
                  /\ f > 0 => UFClaimedConfidence(u, f - 1, a) <= UFClaimedConfidence(u, f, a)
                  /\ a > 0 => UFClaimedConfidence(u, f, a - 1) <= UFClaimedConfidence(u, f, a)

\* the value of the message's Reply-To header, "" when the map has no such key
ReplyToValue == IF "Reply-To" \in DOMAIN email[1].Headers THEN email[1].Headers["Reply-To"] ELSE ""

\* C21: ReplyToStrategy.Detect emits REPLY_TO_MISMATCH with confidence 0.75
\* exactly when the Reply-To header is non-empty, differs from the sender
\* address after lower-casing both, has a domain in the freemail list, and
\* that domain differs from the sender's domain; otherwise it emits nothing.
C21_ReplyToMismatchIff ==
    UnitOf(5) =>
        LET emits == /\ ReplyToValue # ""
                     /\ ToLower(ReplyToValue) # ToLower(email[1].SenderEmail)
                     /\ extractDomain(ReplyToValue) \in
                            {"gmail.com", "yahoo.com", "hotmail.com", "outlook.com", "aol.com"}
                     /\ extractDomain(ReplyToValue) # extractDomain(email[1].SenderEmail)
        IN  detections = IF emits THEN <<[Type |-> "REPLY_TO_MISMATCH", Confidence |-> 750]>>
                         ELSE <<>>

\* C21 witness: a Reply-To written in capitals at gmail.com on a message from
\* a company address: the signal
C21_Witness ==
    /\ UnitOf(5)
    /\ email[1].SenderEmail = "ceo@company.com"
    /\ ReplyToValue = "Attacker@GMAIL.com"
    /\ detections = <<[Type |-> "REPLY_TO_MISMATCH", Confidence |-> 750]>>

\* the position of the first '@' of an address, 0 when it has none
FirstAt(addr) ==
    IF \E k \in 1..Len(addr) : SubSeq(addr, k, k) = "@"
    THEN CHOOSE k \in 1..Len(addr) :
            /\ SubSeq(addr, k, k) = "@"
            /\ \A m \in 1..(k - 1) : SubSeq(addr, m, m) # "@"
    ELSE 0

\* C22 (as claimed): extractDomain returns "" for an address with no '@',
\* with nothing before the first '@' or with nothing after it, and otherwise
\* the lower-cased text after the first '@'.
C22_ExtractDomainFirstAt ==
    (pc = "domain" /\ result # <<>>) =>
        LET addr == args[1]
            k == FirstAt(addr)
        IN  result[1] = IF k = 0 \/ k = 1 \/ k = Len(addr) THEN ""
                        ELSE ToLower(SubSeq(addr, k + 1, Len(addr)))

\* C22, as the code has it: "" unless the address holds exactly one '@', and
\* then the lower-cased text after it, whatever stands before it.
C22_ExtractDomainOneAt ==
    (pc = "domain" /\ result # <<>>) =>
        LET addr == args[1]
            ats == {k \in 1..Len(addr) : SubSeq(addr, k, k) = "@"}
        IN  result[1] = IF Cardinality(ats) # 1 THEN ""
                        ELSE ToLower(SubSeq(addr, FirstAt(addr) + 1, Len(addr)))

\* the classic edit distance by its recursive definition: the length of the
\* other string when one is empty, the distance of the tails when the heads
\* are equal, and otherwise one more than the least of the distances after a
\* deletion, an insertion or a substitution
RECURSIVE EditDistance(_, _)
EditDistance(a, b) ==
    IF Len(a) = 0 THEN Len(b)
    ELSE IF Len(b) = 0 THEN Len(a)
    ELSE LET ta == SubSeq(a, 2, Len(a))
             tb == SubSeq(b, 2, Len(b))
         IN  IF SubSeq(a, 1, 1) = SubSeq(b, 1, 1) THEN EditDistance(ta, tb)
             ELSE LET del == EditDistance(ta, b)
                      ins == EditDistance(a, tb)
                      sub == EditDistance(ta, tb)
                  IN  1 + (IF del <= ins /\ del <= sub THEN del
                           ELSE IF ins <= sub THEN ins ELSE sub)

\* C23: for all strings a and b of up to MaxLen characters over the alphabet,
\* and for the pairs of the test table, levenshteinDistance(a, b) is the
\* classic edit distance of a and b.
C23_LevenshteinIsEditDistance ==
    (pc = "lev" /\ result # <<>>) => result[1] = EditDistance(args[1], args[2])

\* C23 witness: two substitutions inside a word of the test table
C23_Witness ==
    /\ pc = "lev"
    /\ args = <<"google", "g00gle">>
    /\ result = <<2>>
    /\ EditDistance("google", "g00gle") = 2

\* C24: in IngestEmailsForTenant a failure for one user is isolated.  A call
\* that got its users returns nil after the loop has visited every user, and
\* every user for whom no CreateUser, GetEmails or CreateEmail call failed
\* is stored together with the messages the provider returns for them.  A
\* call returns an error only from the provider lookup or GetUsers, and then
\* users and emails are as they were when it started.
C24_IngestFailureIsolated ==
    /\ Ingesting => ~svc.err
    /\ svc.pc = "ingested" =>
          /\ svc.i = Len(svc.users) + 1
          /\ \A i \in 1..Len(svc.users) :
                i \notin svc.failed =>
                   /\ <<Tenants[svc.tenant].ID, svc.users[i].ProviderUserID>>
                          \in UserKeys(usersTable)
                   /\ ProviderMessageKeys(svc.tenant) \subseteq EmailKeys(emailsTable)
    /\ svc.pc = "ingestError" =>
          /\ svc.err
          /\ svc.users = <<>>
          /\ usersTable = snapshot.users
          /\ emailsTable = snapshot.emails

\* C24 witness: the call for the Microsoft tenant has returned nil; a call
\* failed for the first user only, and the second user and the message
\* fetched for them are stored.
C24_Witness ==
    /\ svc.pc = "ingested"
    /\ svc.tenant = 1
    /\ svc.failed = {1}
    /\ Len(usersTable) = 2
    /\ snapshot.emails = <<>>
    /\ Len(emailsTable) = 1
    /\ emailsTable[1].UserID = svc.users[2].ID
    /\ ~svc.err

\* the signal types only a known recipient's role can give
RoleBasedTypes ==
    {"BEC_CSUITE_TARGETING", "BEC_FINANCE_TARGETING", "BEC_HR_PAYROLL_SCAM",
     "BEC_HIGH_VALUE_TARGET"}

\* C25: within one ProcessUnprocessedEmails batch a failure on one email does
\* not block the batch.  The loop analyses the emails of the batch one after
\* the other whatever failed before, the call returns nil after the last one,
\* and the analysis of every email whose own CreateFraudAnalysis succeeded is
\* stored.  An email whose recipient lookup failed or found no user gets the
\* verdict of a call without recipient, which holds no role-based signal.
C25_BatchNotBlockedByFailure ==
    /\ svc.pc \in {"analyze", "mark", "processed"} => ~svc.err
    /\ svc.pc = "analyze" => Len(svc.log) = svc.k - 1
    /\ svc.pc = "mark" => Len(svc.log) = svc.k
    /\ svc.pc = "processed" =>
          /\ Len(svc.log) = Len(svc.batch)
          /\ \A k \in 1..Len(svc.batch) :
                ~svc.log[k].storeErr =>
                    \E n \in 1..Len(fraudAnalyses) : fraudAnalyses[n] = svc.log[k].analysis
    /\ svc.pc \in {"analyze", "mark", "processed"} =>
          \A k \in 1..Len(svc.log) :
             /\ svc.log[k].ID = svc.batch[k].ID
             /\ svc.log[k].analysis.EmailID = svc.batch[k].ID
             /\ (svc.log[k].lookupErr \/ svc.log[k].recipient = <<>>) =>
                    /\ svc.log[k].analysis = AnalyzeEmail(strategies, ctx, svc.batch[k], <<>>)
                    /\ \A d \in 1..Len(svc.log[k].analysis.DetectedThreats) :
                          svc.log[k].analysis.DetectedThreats[d].Type \notin RoleBasedTypes

\* C25 witness: a batch of two emails has been gone through; the recipient
\* lookup failed for the first, whose stored verdict lacks the role-based
\* signal the recipient's role would have given, and the second was analysed
\* and stored after it.
C25_Witness ==
    /\ svc.pc = "processed"
    /\ Len(svc.batch) = 2
    /\ svc.failed = {1}
    /\ svc.log[1].lookupErr
    /\ \E n \in 1..Len(fraudAnalyses) : fraudAnalyses[n] = svc.log[1].analysis
    /\ LET e == svc.batch[1]
           a == AnalyzeEmail(strategies, ctx, e,
                             GetUserByEmail(usersTable, e.TenantID, e.RecipientEmail))
       IN  \E d \in 1..Len(a.DetectedThreats) : a.DetectedThreats[d].Type \in RoleBasedTypes
    /\ \E n \in 1..Len(fraudAnalyses) : fraudAnalyses[n] = svc.log[2].analysis
    /\ Unprocessed(emailsTable) = {}

\* C26 (as claimed): every signal in a verdict of AnalyzeEmail has a type
\* with its own entry in the weight table of calculateRiskScore, and a
\* verdict that holds the HR payroll signal (confidence 0.80) scores at least
\* 0.80 * 1.4, capped at 1.0.
C26_EverySignalTypeWeighted ==
    pc = "done" =>
        \A i \in 1..Len(analysis[1].DetectedThreats) :
           LET d == analysis[1].DetectedThreats[i]
           IN  /\ d.Type \in DOMAIN weights
               /\ d.Type = "BEC_HR_PAYROLL_SCAM" => analysis[1].RiskScore >= 10000

\* C27: a verdict of AnalyzeEmail with at least one signal scores at least
\* 0.70 and has level high or critical; a verdict has level none exactly when
\* it holds no signal; the levels low and medium are never produced.
C27_SignalMeansHighOrCritical ==
    pc = "done" =>
        /\ analysis[1].DetectedThreats # <<>> =>
              /\ analysis[1].RiskScore >= 7000
              /\ analysis[1].RiskLevel \in {"high", "critical"}
        /\ analysis[1].RiskLevel = "none" <=> analysis[1].DetectedThreats = <<>>
        /\ analysis[1].RiskLevel \notin {"low", "medium"}

\* C27 witness: a verdict whose only signals weigh 0.70, the least a strategy
\* can give: score 0.70 exactly, level high
C27_Witness ==
    /\ pc = "done"
    /\ analysis[1].DetectedThreats # <<>>
    /\ analysis[1].RiskScore = 7000
    /\ analysis[1].RiskLevel = "high"

\* min(1.0, confidence) of a signal, in ten-thousandths
CappedConfidence(d) == IF d.Confidence * 10 < 10000 THEN d.Confidence * 10 ELSE 10000

\* C28: the weighted-maximum score is monotone.  The score of a list of
\* signals is at least min(1.0, confidence) of every signal in it, at least
\* the score of each of its prefixes, and appending any signal to the list
\* gives a score that is not lower.
C28_ScoreMonotone ==
    (pc = "score" /\ analysis # <<>>) =>
        /\ \A i \in 1..Len(detections) :
              /\ analysis[1].RiskScore >= CappedConfidence(detections[i])
              /\ analysis[1].RiskScore >= calculateRiskScore(SubSeq(detections, 1, i - 1))
        /\ \A d \in SignalPool :
              calculateRiskScore(Append(detections, d)) >= analysis[1].RiskScore

\* C28 witness: a strong signal followed by two weak ones; the score is the
\* strong signal's weighted confidence, below the cap
C28_Witness ==
    /\ pc = "score"
    /\ analysis # <<>>
    /\ Len(detections) = 3
    /\ detections[1].Confidence = 800
    /\ detections[2].Confidence <= 250
    /\ detections[3].Confidence <= 250
    /\ analysis[1].RiskScore = 800 * typeWeight(detections[1].Type)
    /\ analysis[1].RiskScore < 10000

\* the rows of fraud_analyses that belong to the email id
AnalysesOf(id) == {i \in 1..Len(fraudAnalyses) : fraudAnalyses[i].EmailID = id}

\* C29: after any sequence of service calls, with or without failing
\* storage operations, fraud_analyses holds at most one row per email.
C29_AtMostOneAnalysisPerEmail ==
    \A id \in AnalysedIDs : Cardinality(AnalysesOf(id)) <= 1

\* C29, without failures: as long as no storage operation has failed, no
\* email has more than one row in fraud_analyses.
C29_OneAnalysisPerEmailWithoutFaults ==
    faults = 0 => \A id \in AnalysedIDs : Cardinality(AnalysesOf(id)) <= 1

\* the emails the running ProcessUnprocessedEmails call has analysed so far
AnalysedByCall == {svc.batch[n] : n \in 1..Len(svc.log)}

\* C30: while ProcessUnprocessedEmails(tenantID) runs and when it has
\* returned nil, every email it has analysed, and every email of its batch
\* that is marked processed, belongs to the tenant tenantID.
C30_OnlyOwnTenantProcessed ==
    svc.pc \in {"analyze", "mark", "processed"} =>
        /\ \A e \in AnalysedByCall : e.TenantID = Tenants[svc.tenant].ID
        /\ \A i \in 1..Len(emailsTable) :
              (emailsTable[i].Processed /\ emailsTable[i].ID \in IDsOf(svc.batch))
                  => emailsTable[i].TenantID = Tenants[svc.tenant].ID

====
